---- MODULE Spec2Model ----
(***************************************************************************)
(* A model of go-ascii-calendar: the three-month calendar window, the      *)
(* selected date, the NavigationController that moves both, and the part   *)
(* of the application's key dispatch that drives them (calendar mode and   *)
(* search mode).                                                           *)
(*                                                                         *)
(* Dates are records [y, m, d].  The program works on time.Time values at  *)
(* midnight, so a date is its (year, month, day) triple; the host's        *)
(* location is taken to be the one the stored event dates are in.          *)
(*                                                                         *)
(* NavSpec drives the NavigationController alone; Spec is the main loop of *)
(* the application, one step per handled key action.                       *)
(***************************************************************************)
EXTENDS Integers, Sequences, FiniteSets, TLC

VARIABLES
    center,               \* Calendar.CurrentMonth
    sel,                  \* Selection.SelectedDate
    state,                \* Application.state
    running,              \* Application.Run has not left its loop
    events,               \* Manager.events
    stored,               \* the events file: the records SaveEventsJSON wrote last
    searchQuery,          \* Application.searchQuery
    searchResults,        \* Application.searchResults
    searchResultDates,    \* Application.searchResultDates
    selectedResultIndex,  \* Application.selectedResultIndex
    selectedEventIndex,   \* Application.selectedEventIndex
    input,                \* the buffer of the input call in progress
    inputRet,             \* the state of that call and what it returned
    queried,              \* the last GetEventsForDate call, if the events have not
                          \* changed since: its date and its result
    arg,                  \* history: what the last call of the manager was given:
                          \* AddEvent's date, time and text, DeleteEvent's event,
                          \* EditEvent's old event, then the new date, time and text;
                          \* or the window and selection a controller call started from
    lastOp,               \* history: the operation or key action handled last
    lastRet               \* history: what the last operation reported (SetSelection's result)

vars == <<center, sel, state, running, events, stored, searchQuery, searchResults,
          searchResultDates, selectedResultIndex, selectedEventIndex,
          input, inputRet, queried, arg, lastOp, lastRet>>

navVars == <<center, sel>>

callVars == <<input, inputRet, queried, arg>>

appVars == <<state, running, events, stored, searchQuery, searchResults, searchResultDates,
             selectedResultIndex, selectedEventIndex, callVars>>

----------------------------------------------------------------------------
(* Bounds of the model.                                                    *)

\* The first calendar year the window may be centred in.
FirstYear == 2024

\* The number of calendar years the window may be centred in.  The centre
\* may also be the December before and the January after them, so that the
\* year rolls over in both directions.
NumYears == 1

\* SetSelection is tried with every date at most this many days away from
\* either end of the visible range (on both sides of it).
SetReach == 3

----------------------------------------------------------------------------
(* Go's time package, as far as the program uses it.                       *)

MkDate(y, m, d) == [y |-> y, m |-> m, d |-> d]

\* The Gregorian leap-year rule of time.Date's normalisation.
GoIsLeap(y) == (y % 4 = 0) /\ ((y % 100 # 0) \/ (y % 400 = 0))

\* The length of month m (1..12) of year y, as time.Date's normalisation uses it.
GoDaysIn(y, m) ==
    IF m = 2 THEN (IF GoIsLeap(y) THEN 29 ELSE 28)
    ELSE IF m \in {4, 6, 9, 11} THEN 30 ELSE 31

\* Month overflow of time.Date: month values outside 1..12 carry into the year.
NormMonth(y, m) ==
    [y |-> y + ((m - 1) \div 12), m |-> ((m - 1) % 12) + 1]

\* Day overflow of time.Date: day values outside the month carry into the
\* neighbouring months (October 32 becomes November 1, March 0 the last of February).
RECURSIVE NormDay(_, _, _)
NormDay(y, m, d) ==
    IF d < 1
    THEN LET p == NormMonth(y, m - 1) IN NormDay(p.y, p.m, d + GoDaysIn(p.y, p.m))
    ELSE IF d > GoDaysIn(y, m)
    THEN LET n == NormMonth(y, m + 1) IN NormDay(n.y, n.m, d - GoDaysIn(y, m))
    ELSE MkDate(y, m, d)

\* time.Date(y, m, d, 0, 0, 0, 0, loc)
GoDate(y, m, d) == LET n == NormMonth(y, m) IN NormDay(n.y, n.m, d)

\* t.AddDate(years, months, days)
AddDate(t, years, months, days) == GoDate(t.y + years, t.m + months, t.d + days)

\* t.Before(u), t.After(u)
Before(t, u) ==
    \/ t.y < u.y
    \/ t.y = u.y /\ t.m < u.m
    \/ t.y = u.y /\ t.m = u.m /\ t.d < u.d

After(t, u) == Before(u, t)

----------------------------------------------------------------------------
(* models.Calendar                                                         *)

\* Calendar.GetPreviousMonth
GetPreviousMonth(c) == AddDate(c, 0, -1, 0)

\* Calendar.GetNextMonth
GetNextMonth(c) == AddDate(c, 0, 1, 0)

\* Calendar.NavigateBackward: the new CurrentMonth
NavigateBackward(c) == AddDate(c, 0, -1, 0)

\* NavigateForward stepping by a fixed number of days instead of a calendar month.
NavigateForward_ThirtyDays(c) == AddDate(c, 0, 0, 30)

\* Calendar.NavigateForward: the new CurrentMonth
NavigateForward(c) == AddDate(c, 0, 1, 0)

----------------------------------------------------------------------------
(* terminal.NavigationController: helpers                                  *)

\* NavigationController.getLastDayOfMonth
getLastDayOfMonth(date) == AddDate(GoDate(date.y, date.m + 1, 1), 0, 0, -1)

\* NavigationController.getDaysInMonth
getDaysInMonth(date) == AddDate(GoDate(date.y, date.m + 1, 1), 0, 0, -1).d

\* isDateInVisibleRange with the two end days of the range left out.
isDateInVisibleRange_Exclusive(c, date) ==
    LET prevMonth  == GetPreviousMonth(c)
        nextMonth  == GetNextMonth(c)
        startRange == GoDate(prevMonth.y, prevMonth.m, 1)
        endRange   == getLastDayOfMonth(nextMonth)
    IN  After(date, startRange) /\ Before(date, endRange)

\* NavigationController.isDateInVisibleRange
isDateInVisibleRange(c, date) ==
    LET prevMonth  == GetPreviousMonth(c)
        nextMonth  == GetNextMonth(c)
        startRange == GoDate(prevMonth.y, prevMonth.m, 1)
        endRange   == getLastDayOfMonth(nextMonth)
    IN  ~Before(date, startRange) /\ ~After(date, endRange)

\* Selection.IsWithinVisibleRange
IsWithinVisibleRange(c, s) ==
    LET prevMonth  == GetPreviousMonth(c)
        nextMonth  == GetNextMonth(c)
        startRange == GoDate(prevMonth.y, prevMonth.m, 1)
        endRange   == AddDate(GoDate(nextMonth.y, nextMonth.m + 1, 1), 0, 0, -1)
    IN  ~Before(s, startRange) /\ ~After(s, endRange)

\* NavigationController.GetVisibleDateRange
GetVisibleDateRange(c) ==
    LET prevMonth == GetPreviousMonth(c)
        nextMonth == GetNextMonth(c)
    IN  [start |-> GoDate(prevMonth.y, prevMonth.m, 1),
         end   |-> getLastDayOfMonth(nextMonth)]

----------------------------------------------------------------------------
(* terminal.NavigationController: the operations, as functions from the    *)
(* window c and the selection s to the new selection.                      *)

\* NavigateDayLeft that never leaves the month of the selection.
navigateDayLeft_SameMonth(c, s) ==
    LET newDate == AddDate(s, 0, 0, -1) IN
    IF isDateInVisibleRange(c, newDate) /\ newDate.m = s.m THEN newDate ELSE s

\* NavigationController.NavigateDayLeft
navigateDayLeft(c, s) ==
    LET newDate == AddDate(s, 0, 0, -1) IN
    IF isDateInVisibleRange(c, newDate) THEN newDate
    ELSE IF s.d = 1
         THEN LET prevMonth          == AddDate(s, 0, -1, 0)
                  lastDayOfPrevMonth == getLastDayOfMonth(prevMonth)
              IN  IF isDateInVisibleRange(c, lastDayOfPrevMonth)
                  THEN lastDayOfPrevMonth ELSE s
         ELSE s

\* NavigateDayRight that commits the first day of the next month at the end
\* of a month whether it is visible or not.
navigateDayRight_Unchecked(c, s) ==
    LET newDate == AddDate(s, 0, 0, 1) IN
    IF isDateInVisibleRange(c, newDate) THEN newDate
    ELSE IF s.d = getDaysInMonth(s)
         THEN LET nextMonth == AddDate(s, 0, 1, 0) IN GoDate(nextMonth.y, nextMonth.m, 1)
         ELSE s

\* NavigationController.NavigateDayRight
navigateDayRight(c, s) ==
    LET newDate == AddDate(s, 0, 0, 1) IN
    IF isDateInVisibleRange(c, newDate) THEN newDate
    ELSE IF s.d = getDaysInMonth(s)
         THEN LET nextMonth           == AddDate(s, 0, 1, 0)
                  firstDayOfNextMonth == GoDate(nextMonth.y, nextMonth.m, 1)
              IN  IF isDateInVisibleRange(c, firstDayOfNextMonth)
                  THEN firstDayOfNextMonth ELSE s
         ELSE s

\* NavigateDayUp that lands on the first visible day when a week up is out of range.
navigateDayUp_Clamp(c, s) ==
    LET newDate == AddDate(s, 0, 0, -7) IN
    IF isDateInVisibleRange(c, newDate) THEN newDate ELSE GetVisibleDateRange(c).start

\* NavigationController.NavigateDayUp
navigateDayUp(c, s) ==
    LET newDate == AddDate(s, 0, 0, -7) IN
    IF isDateInVisibleRange(c, newDate) THEN newDate ELSE s

\* NavigateDayDown that lands on the last visible day when a week down is out of range.
navigateDayDown_Clamp(c, s) ==
    LET newDate == AddDate(s, 0, 0, 7) IN
    IF isDateInVisibleRange(c, newDate) THEN newDate ELSE GetVisibleDateRange(c).end

\* NavigationController.NavigateDayDown
navigateDayDown(c, s) ==
    LET newDate == AddDate(s, 0, 0, 7) IN
    IF isDateInVisibleRange(c, newDate) THEN newDate ELSE s

\* adjustSelectionForMonthChange that never adjusts.
adjustSelectionForMonthChange_Never(c, s, desiredDay) == s

\* adjustSelectionForMonthChange that moves the selection into the centre
\* month after every shift, also when it is still visible.
adjustSelectionForMonthChange_Always(c, s, desiredDay) ==
    LET daysInMonth == getDaysInMonth(c)
        actualDay   == IF desiredDay > daysInMonth THEN daysInMonth ELSE desiredDay
    IN  GoDate(c.y, c.m, actualDay)

\* adjustSelectionForMonthChange without the clamp to the month's length.
adjustSelectionForMonthChange_NoClamp(c, s, desiredDay) ==
    IF ~IsWithinVisibleRange(c, s) THEN GoDate(c.y, c.m, desiredDay) ELSE s

\* adjustSelectionForMonthChange that moves a selection that left the
\* window one month towards it.
adjustSelectionForMonthChange_ByMonth(c, s, desiredDay) ==
    IF ~IsWithinVisibleRange(c, s)
    THEN (IF Before(s, c) THEN AddDate(s, 0, 1, 0) ELSE AddDate(s, 0, -1, 0))
    ELSE s

\* NavigationController.adjustSelectionForMonthChange, c being the window
\* after the shift
adjustSelectionForMonthChange(c, s, desiredDay) ==
    IF ~IsWithinVisibleRange(c, s)
    THEN LET daysInMonth == getDaysInMonth(c)
             actualDay   == IF desiredDay > daysInMonth THEN daysInMonth ELSE desiredDay
         IN  GoDate(c.y, c.m, actualDay)
    ELSE s

\* NavigationController.NavigateMonthBackward: the new window and selection
navigateMonthBackward(c, s) ==
    LET selectedDay == s.d
        c2          == NavigateBackward(c)
    IN  [center |-> c2, sel |-> adjustSelectionForMonthChange(c2, s, selectedDay)]

\* NavigationController.NavigateMonthForward: the new window and selection
navigateMonthForward(c, s) ==
    LET selectedDay == s.d
        c2          == NavigateForward(c)
    IN  [center |-> c2, sel |-> adjustSelectionForMonthChange(c2, s, selectedDay)]

\* NavigationController.SetSelection: the new selection and the result reported
setSelection(c, s, date) ==
    IF isDateInVisibleRange(c, date)
    THEN [sel |-> date, ok |-> TRUE]
    ELSE [sel |-> s, ok |-> FALSE]

\* NavigationController.ResetToCurrent (called by main.go, its body is not
\* in the sources): the window is centred on the host's current month and
\* the host's current date is selected.
resetToCurrent(now) == [center |-> GoDate(now.y, now.m, 1), sel |-> now]

----------------------------------------------------------------------------
(* The state after construction.                                           *)

\* The dates the host's clock may show when it is read (time.Now()).
HostDates ==
    { MkDate(FirstYear, 1, 31), MkDate(FirstYear, 8, 15), MkDate(FirstYear, 12, 1) }

\* The earliest and latest centre month the model shifts the window to.
MinCenter == MkDate(FirstYear - 1, 12, 1)
MaxCenter == MkDate(FirstYear + NumYears, 1, 1)

\* No input call has been made: the input handler is not polling a prompt.
NoCall == [status |-> "none", prompt |-> "none", value |-> << >>, prefill |-> << >>]

\* The characters '0'..'9' in rune order.
DigitChars == <<"0", "1", "2", "3", "4", "5", "6", "7", "8", "9">>

\* event.Date.Format("2006-01-02"): the year, the month and the day of the
\* text, the time of day is not written
FormatDate(t) == <<t.y, t.m, t.d>>

\* Two decimal digits of n (n in 0..99), as time.Format writes "15" and "04".
TwoDigits(n) == <<DigitChars[(n \div 10) + 1], DigitChars[(n % 10) + 1]>>

\* Event.GetTimeString: Time.Format("15:04")
GetTimeString(t) == TwoDigits(t.h) \o <<":">> \o TwoDigits(t.m)

\* storage.convertEventToJSON: the record of the events file
convertEventToJSON(event) ==
    [Date        |-> FormatDate(event.date),
     Time        |-> GetTimeString(event.time),
     Description |-> event.desc]

\* storage.SaveEventsJSON: the file is rewritten with one record per event,
\* in the order of the slice.
SaveEventsJSON(evs) == [i \in 1..Len(evs) |-> convertEventToJSON(evs[i])]

\* The event manager has not been asked for the events of a date.
NoQuery == [asked |-> FALSE, date |-> MkDate(FirstYear, 1, 1), dateEvents |-> << >>]

\* NewApplication: NewCalendar centres the window on the first day of the
\* host's current month, NewSelection selects the host's current date and
\* the application is in calendar mode; evs is the event collection.
ConstructedOn(now, evs) ==
    /\ center = GoDate(now.y, now.m, 1)
    /\ sel = GoDate(now.y, now.m, now.d)
    /\ state = "StateCalendar"
    /\ running = TRUE
    /\ events = evs
    /\ stored = SaveEventsJSON(evs)
    /\ searchQuery = << >>
    /\ searchResults = << >>
    /\ searchResultDates = << >>
    /\ selectedResultIndex = 0
    /\ selectedEventIndex = 0
    /\ input = << >>
    /\ inputRet = NoCall
    /\ queried = NoQuery
    /\ arg = << >>
    /\ lastOp = "New"
    /\ lastRet = FALSE

\* NewApplication on any of the host's dates
Constructed(evs) == \E now \in HostDates : ConstructedOn(now, evs)

\* The controller on a fresh calendar and selection; the event manager
\* starts empty.
NavInit == Constructed(<< >>)

----------------------------------------------------------------------------
(* The NavigationController's operations, called directly (as the tests of *)
(* the controller do).  lastRet records SetSelection's result and, for the *)
(* moves, whether the selection was changed.                               *)

NavigateMonthBackward ==
    /\ lastOp' = "NavigateMonthBackward"
    /\ Before(MinCenter, center)
    /\ LET r == navigateMonthBackward(center, sel) IN
          /\ center' = r.center
          /\ sel' = r.sel
          /\ lastRet' = (r.sel # sel)
    /\ UNCHANGED appVars

NavigateMonthForward ==
    /\ lastOp' = "NavigateMonthForward"
    /\ Before(center, MaxCenter)
    /\ LET r == navigateMonthForward(center, sel) IN
          /\ center' = r.center
          /\ sel' = r.sel
          /\ lastRet' = (r.sel # sel)
    /\ UNCHANGED appVars

NavigateDayLeft ==
    /\ lastOp' = "NavigateDayLeft"
    /\ sel' = navigateDayLeft(center, sel)
    /\ lastRet' = (sel' # sel)
    /\ UNCHANGED <<center, appVars>>

\* A day move that scrolls the window when the selection is at its last day.
NavigateDayRight_Scroll ==
    /\ lastOp' = "NavigateDayRight"
    /\ IF navigateDayRight(center, sel) = sel /\ Before(center, MaxCenter)
       THEN /\ center' = NavigateForward(center)
            /\ sel' = AddDate(sel, 0, 0, 1)
       ELSE /\ center' = center
            /\ sel' = navigateDayRight(center, sel)
    /\ lastRet' = (sel' # sel)
    /\ UNCHANGED appVars

NavigateDayRight ==
    /\ lastOp' = "NavigateDayRight"
    /\ sel' = navigateDayRight(center, sel)
    /\ lastRet' = (sel' # sel)
    /\ UNCHANGED <<center, appVars>>

NavigateDayUp ==
    /\ lastOp' = "NavigateDayUp"
    /\ sel' = navigateDayUp(center, sel)
    /\ lastRet' = (sel' # sel)
    /\ UNCHANGED <<center, appVars>>

NavigateDayDown ==
    /\ lastOp' = "NavigateDayDown"
    /\ sel' = navigateDayDown(center, sel)
    /\ lastRet' = (sel' # sel)
    /\ UNCHANGED <<center, appVars>>

\* The dates SetSelection is called with: every date within SetReach days
\* of either end of the visible range, the first of the centre month, and
\* the first and last day of the centre's year and of its neighbours.
SetSelectionInputs(c) ==
    LET r == GetVisibleDateRange(c) IN
    { AddDate(r.start, 0, 0, k) : k \in (0 - SetReach) .. SetReach }
    \cup { AddDate(r.end, 0, 0, k) : k \in (0 - SetReach) .. SetReach }
    \cup { c, MkDate(c.y - 1, 1, 1), MkDate(c.y + 1, 12, 31) }

SetSelectionOf(date) ==
    /\ lastOp' = "SetSelection"
    /\ LET r == setSelection(center, sel, date) IN
          /\ sel' = r.sel
          /\ lastRet' = r.ok
    /\ UNCHANGED <<center, appVars>>

SetSelection == \E date \in SetSelectionInputs(center) : SetSelectionOf(date)

NavNext ==
    \/ NavigateMonthBackward
    \/ NavigateMonthForward
    \/ NavigateDayLeft
    \/ NavigateDayRight
    \/ NavigateDayUp
    \/ NavigateDayDown
    \/ SetSelection

NavSpec == NavInit /\ [][NavNext]_vars

----------------------------------------------------------------------------
(* The event collection and the search over it.  Text is a sequence of     *)
(* characters.                                                             *)

\* The events the storage holds when the application starts.
StoredEvents ==
    << [date |-> MkDate(FirstYear, 3, 10), time |-> [h |-> 10, m |-> 0],
        desc |-> <<"a", "b">>],
       [date |-> MkDate(FirstYear, 3, 10), time |-> [h |-> 14, m |-> 30],
        desc |-> <<"B", "c">>],
       [date |-> MkDate(FirstYear, 10, 31), time |-> [h |-> 23, m |-> 59],
        desc |-> <<"c", "a">>] >>

\* The collections LoadEvents may deliver: nothing stored, or the stored events.
StoredCollections == { << >>, StoredEvents }

\* The search queries the user may confirm (GetTextInputWithPrompt returns
\* the trimmed input, which may be empty).
Queries == { << >>, <<"a">>, <<"B">>, <<"z">> }

\* strings.ToLower on the characters the model uses.
ToLowerChar(ch) ==
    IF ch = "A" THEN "a" ELSE IF ch = "B" THEN "b" ELSE IF ch = "C" THEN "c" ELSE ch

ToLower(text) == [i \in 1..Len(text) |-> ToLowerChar(text[i])]

\* strings.Contains
Contains(text, part) ==
    \E i \in 0..(Len(text) - Len(part)) : SubSeq(text, i + 1, i + Len(part)) = part

\* The events of evs on the calendar day of date, in stored order (the
\* filter loop of Manager.GetEventsForDate).
eventsOnDate(evs, date) == SelectSeq(evs, LAMBDA e : e.date = date)

\* Manager.SearchEvents: the events whose description contains the query,
\* compared case-insensitively; an empty query finds nothing.
SearchEvents(evs, query) ==
    IF query = << >> THEN << >>
    ELSE SelectSeq(evs, LAMBDA e : Contains(ToLower(e.desc), ToLower(query)))

\* The loop of processSearch that collects the distinct dates of the
\* results, in order of first appearance.
RECURSIVE uniqueDates(_, _)
uniqueDates(results, seen) ==
    IF results = << >> THEN << >>
    ELSE LET dateStr == FormatDate(Head(results).date) IN
         IF dateStr \in seen
         THEN uniqueDates(Tail(results), seen)
         ELSE <<dateStr>> \o uniqueDates(Tail(results), seen \cup {dateStr})

----------------------------------------------------------------------------
(* The application: the state when Run enters its loop, and one action per *)
(* mode and key action of handleAction.  Every state is one the renderer   *)
(* draws: Run renders after each handled action.                           *)

\* NewApplication followed by Initialize, which loads the stored events.
Init == \E evs \in StoredCollections : Constructed(evs)

\* A key action that changes only the window and the selection.
Navigated(action, c2, s2) ==
    /\ center' = c2
    /\ sel' = s2
    /\ lastOp' = action
    /\ lastRet' = (s2 # sel)
    /\ UNCHANGED appVars

\* handleCalendarAction, ActionMonthPrev
CalendarMonthPrev ==
    /\ running
    /\ state = "StateCalendar"
    /\ Before(MinCenter, center)
    /\ LET r == navigateMonthBackward(center, sel) IN
          Navigated("ActionMonthPrev", r.center, r.sel)

\* handleCalendarAction, ActionMonthNext
CalendarMonthNext ==
    /\ running
    /\ state = "StateCalendar"
    /\ Before(center, MaxCenter)
    /\ LET r == navigateMonthForward(center, sel) IN
          Navigated("ActionMonthNext", r.center, r.sel)

\* handleCalendarAction, ActionMoveLeft
CalendarMoveLeft ==
    /\ running
    /\ state = "StateCalendar"
    /\ Navigated("ActionMoveLeft", center, navigateDayLeft(center, sel))

\* handleCalendarAction, ActionMoveRight
CalendarMoveRight ==
    /\ running
    /\ state = "StateCalendar"
    /\ Navigated("ActionMoveRight", center, navigateDayRight(center, sel))

\* handleCalendarAction, ActionMoveUp
CalendarMoveUp ==
    /\ running
    /\ state = "StateCalendar"
    /\ Navigated("ActionMoveUp", center, navigateDayUp(center, sel))

\* handleCalendarAction, ActionMoveDown
CalendarMoveDown ==
    /\ running
    /\ state = "StateCalendar"
    /\ Navigated("ActionMoveDown", center, navigateDayDown(center, sel))

\* handleCalendarAction, ActionResetCurrent
CalendarResetCurrent ==
    /\ running
    /\ state = "StateCalendar"
    /\ \E now \in HostDates :
          LET r == resetToCurrent(now) IN
          Navigated("ActionResetCurrent", r.center, r.sel)

\* handleCalendarAction, ActionShowEvents
CalendarShowEvents ==
    /\ running
    /\ state = "StateCalendar"
    /\ state' = "StateEventList"
    /\ selectedEventIndex' = 0
    /\ lastOp' = "ActionShowEvents"
    /\ lastRet' = FALSE
    /\ UNCHANGED <<navVars, running, callVars, events, stored, searchQuery, searchResults,
                   searchResultDates, selectedResultIndex>>

\* handleCalendarAction, ActionDeleteEvent and ActionEditEvent: the mode
\* for choosing an event of the selected date is entered if that date has
\* events; otherwise an error is shown and nothing changes.
CalendarChooseEvent(action, mode) ==
    /\ running
    /\ state = "StateCalendar"
    /\ IF Len(eventsOnDate(events, sel)) > 0
       THEN state' = mode /\ selectedEventIndex' = 0
       ELSE UNCHANGED <<state, selectedEventIndex>>
    /\ lastOp' = action
    /\ lastRet' = FALSE
    /\ UNCHANGED <<navVars, running, callVars, events, stored, searchQuery, searchResults,
                   searchResultDates, selectedResultIndex>>

CalendarDeleteEvent == CalendarChooseEvent("ActionDeleteEvent", "StateCalendarEventSelection")

CalendarEditEvent == CalendarChooseEvent("ActionEditEvent", "StateCalendarEventEdit")

\* handleCalendarAction, ActionSearch: processSearch with the query prompt
\* cancelled
CalendarSearchCancelled ==
    /\ running
    /\ state = "StateCalendar"
    /\ lastOp' = "ActionSearch"
    /\ lastRet' = FALSE
    /\ UNCHANGED <<navVars, appVars>>

\* handleCalendarAction, ActionSearch: processSearch with the query confirmed
CalendarSearch ==
    /\ running
    /\ state = "StateCalendar"
    /\ \E query \in Queries :
          /\ searchQuery' = query
          /\ searchResults' = SearchEvents(events, query)
          /\ selectedResultIndex' = 0
          /\ searchResultDates' = uniqueDates(SearchEvents(events, query), {})
    /\ state' = "StateSearch"
    /\ lastOp' = "ActionSearch"
    /\ lastRet' = TRUE
    /\ UNCHANGED <<navVars, running, callVars, events, stored, selectedEventIndex>>

\* handleSearchAction, ActionBack
SearchBack ==
    /\ running
    /\ state = "StateSearch"
    /\ state' = "StateCalendar"
    /\ searchQuery' = << >>
    /\ searchResults' = << >>
    /\ searchResultDates' = << >>
    /\ selectedResultIndex' = 0
    /\ lastOp' = "ActionBack"
    /\ lastRet' = FALSE
    /\ UNCHANGED <<navVars, running, callVars, events, stored, selectedEventIndex>>

\* handleSearchAction, ActionMoveUp: navigateSearchResultUp
SearchMoveUp ==
    /\ running
    /\ state = "StateSearch"
    /\ selectedResultIndex' =
          IF Len(searchResults) > 0 /\ selectedResultIndex > 0
          THEN selectedResultIndex - 1 ELSE selectedResultIndex
    /\ lastOp' = "ActionMoveUp"
    /\ lastRet' = FALSE
    /\ UNCHANGED <<navVars, running, callVars, state, events, stored, searchQuery, searchResults,
                   searchResultDates, selectedEventIndex>>

\* handleSearchAction, ActionMoveDown: navigateSearchResultDown
SearchMoveDown ==
    /\ running
    /\ state = "StateSearch"
    /\ selectedResultIndex' =
          IF Len(searchResults) > 0 /\ selectedResultIndex < Len(searchResults) - 1
          THEN selectedResultIndex + 1 ELSE selectedResultIndex
    /\ lastOp' = "ActionMoveDown"
    /\ lastRet' = FALSE
    /\ UNCHANGED <<navVars, running, callVars, state, events, stored, searchQuery, searchResults,
                   searchResultDates, selectedEventIndex>>

\* A jump that centres the window on the date of the event itself.
processSearchResultSelection_OnEventDate(c, s, results, index) ==
    LET selectedEvent == results[index + 1]
        r             == setSelection(c, s, selectedEvent.date)
    IN  [center |-> selectedEvent.date, sel |-> r.sel, ok |-> r.ok]

\* processSearchResultSelection with a non-empty result list: the new
\* window, the new selection and SetSelection's result.  SetSelection is
\* called on the window as it is, and only then is the window centred on
\* the month of the event.
processSearchResultSelection(c, s, results, index) ==
    LET selectedEvent == results[index + 1]
        r             == setSelection(c, s, selectedEvent.date)
        eventMonth    == selectedEvent.date
    IN  [center |-> GoDate(eventMonth.y, eventMonth.m, 1), sel |-> r.sel, ok |-> r.ok]

\* handleSearchAction, ActionShowEvents (Enter): processSearchResultSelection
SearchShowEvents ==
    /\ running
    /\ state = "StateSearch"
    /\ IF Len(searchResults) = 0
       THEN /\ lastRet' = FALSE
            /\ UNCHANGED <<navVars, appVars>>
       ELSE LET r == processSearchResultSelection(center, sel, searchResults,
                                                  selectedResultIndex)
            IN  /\ center' = r.center
                /\ sel' = r.sel
                /\ lastRet' = r.ok
                /\ searchQuery' = << >>
                /\ searchResults' = << >>
                /\ searchResultDates' = << >>
                /\ selectedResultIndex' = 0
                /\ state' = "StateCalendar"
                /\ UNCHANGED <<callVars, running, events, stored, selectedEventIndex>>
    /\ lastOp' = "ActionShowEvents"

\* handleSearchAction, any other key action: ignored
SearchOtherKey ==
    /\ running
    /\ state = "StateSearch"
    /\ lastOp' = "ActionNone"
    /\ lastRet' = FALSE
    /\ UNCHANGED <<navVars, appVars>>

\* A way back to the calendar that leaves the highlight where it was.
EventModeBack_KeepIndex ==
    /\ running
    /\ state \in {"StateEventList", "StateCalendarEventSelection", "StateCalendarEventEdit"}
    /\ state' = "StateCalendar"
    /\ lastOp' = "ActionBack"
    /\ lastRet' = FALSE
    /\ UNCHANGED <<navVars, running, callVars, events, stored, searchQuery, searchResults,
                   searchResultDates, selectedResultIndex, selectedEventIndex>>

\* handleEventListAction, handleCalendarEventSelectionAction and
\* handleCalendarEventEditAction, ActionBack: back to the calendar
EventModeBack ==
    /\ running
    /\ state \in {"StateEventList", "StateCalendarEventSelection", "StateCalendarEventEdit"}
    /\ state' = "StateCalendar"
    /\ selectedEventIndex' = 0
    /\ lastOp' = "ActionBack"
    /\ lastRet' = FALSE
    /\ UNCHANGED <<navVars, running, callVars, events, stored, searchQuery, searchResults,
                   searchResultDates, selectedResultIndex>>

\* The modes of the application that are ever entered.
Modes ==
    { "StateCalendar", "StateEventList", "StateCalendarEventSelection",
      "StateCalendarEventEdit", "StateSearch" }

\* The keys pressed at a confirmation prompt.
ConfirmKeys == { "Enter", "Esc", "q" }

\* A confirmation that takes every key but Esc for a yes.
confirmAction_UnlessEsc(key) == key # "Esc"

\* Application.confirmAction: the message is shown, one key is awaited, and
\* only Enter confirms.
confirmAction(key) == key = "Enter"

\* Application.confirmExit
confirmExit(key) == confirmAction(key)

\* A handler returning confirmExit(): Run leaves its loop if the key pressed
\* at the prompt confirms, and goes on otherwise; lastRet keeps what
\* confirmExit returned.
ExitRequested(action) ==
    /\ lastOp' = action
    /\ \E key \in ConfirmKeys :
          /\ lastRet' = confirmExit(key)
          /\ running' = ~confirmExit(key)
    /\ UNCHANGED <<navVars, state, events, stored, searchQuery, searchResults,
                   searchResultDates, selectedResultIndex, selectedEventIndex,
                   callVars>>

\* ActionQuit (Q or Ctrl-C) in any mode
AnyModeQuit ==
    /\ running
    /\ state \in Modes
    /\ ExitRequested("ActionQuit")

\* handleCalendarAction, ActionBack (Esc)
CalendarBack ==
    /\ running
    /\ state = "StateCalendar"
    /\ ExitRequested("ActionBack")

Next ==
    \/ CalendarMonthPrev
    \/ CalendarMonthNext
    \/ CalendarMoveLeft
    \/ CalendarMoveRight
    \/ CalendarMoveUp
    \/ CalendarMoveDown
    \/ CalendarResetCurrent
    \/ CalendarShowEvents
    \/ CalendarDeleteEvent
    \/ CalendarEditEvent
    \/ CalendarSearchCancelled
    \/ CalendarSearch
    \/ SearchBack
    \/ SearchMoveUp
    \/ SearchMoveDown
    \/ SearchShowEvents
    \/ SearchOtherKey
    \/ EventModeBack
    \/ AnyModeQuit
    \/ CalendarBack

Spec == Init /\ [][Next]_vars

----------------------------------------------------------------------------
(* Calendar arithmetic the properties are stated in: day numbers and the   *)
(* Gregorian table, independent of time.Date's normalisation.              *)

\* The length of month m of year y in the Gregorian calendar.
MonthLength(y, m) ==
    LET leap == (y % 4 = 0) /\ ((y % 100 # 0) \/ (y % 400 = 0))
        tab  == <<31, IF leap THEN 29 ELSE 28, 31, 30, 31, 30, 31, 31, 30, 31, 30, 31>>
    IN  tab[m]

\* t is a date of the calendar.
ValidDate(t) ==
    /\ t.m \in 1..12
    /\ t.d \in 1..MonthLength(t.y, t.m)

\* The number of days from the calendar's day 0 to the valid date t.
DayNumber(t) ==
    LET y1     == t.y - 1
        leap   == (t.y % 4 = 0) /\ ((t.y % 100 # 0) \/ (t.y % 400 = 0))
        before == <<0, 31, 59, 90, 120, 151, 181, 212, 243, 273, 304, 334>>
    IN  365 * y1 + (y1 \div 4) - (y1 \div 100) + (y1 \div 400)
        + before[t.m] + (IF leap /\ t.m > 2 THEN 1 ELSE 0) + t.d

\* The number of the month of t, counting months from year 0.
MonthNumber(t) == 12 * t.y + (t.m - 1)

\* The first day of the month before the centre month c.
RangeStart(c) ==
    IF c.m = 1 THEN MkDate(c.y - 1, 12, 1) ELSE MkDate(c.y, c.m - 1, 1)

\* The last day of the month after the centre month c.
RangeEnd(c) ==
    IF c.m = 12 THEN MkDate(c.y + 1, 1, 31)
    ELSE MkDate(c.y, c.m + 1, MonthLength(c.y, c.m + 1))

\* The day with number n lies in the visible range of the window centred on c.
DayNumberVisible(c, n) ==
    DayNumber(RangeStart(c)) <= n /\ n <= DayNumber(RangeEnd(c))

\* The date t lies in the visible range of the window centred on c.
InVisibleRange(c, t) == ValidDate(t) /\ DayNumberVisible(c, DayNumber(t))

----------------------------------------------------------------------------
(* Properties of the NavigationController (checked under NavSpec).         *)

\* C1: starting with the selected date in the visible range, after any
\* sequence of controller operations (day moves, month shifts, SetSelection
\* with any date) the selected date lies in the visible range of the
\* current centre month.
C1_SelectionStaysVisible == InVisibleRange(center, sel)

\* C1 witness: a month shift has just moved the selection back into the window.
C1_Witness ==
    /\ lastOp = "NavigateMonthForward"
    /\ lastRet
    /\ InVisibleRange(center, sel)

\* C4: NavigateDayLeft (NavigateDayRight) selects the day before (after)
\* the selection whenever that day is in the visible range, also across a
\* month boundary inside the window; on the first (last) day of the visible
\* range it leaves the selection and the centre month unchanged.
C4_DayLeftRight ==
    [][ /\ NavigateDayLeft =>
              /\ center' = center
              /\ DayNumberVisible(center, DayNumber(sel) - 1) =>
                    ValidDate(sel') /\ DayNumber(sel') = DayNumber(sel) - 1
              /\ sel = RangeStart(center) => sel' = sel
        /\ NavigateDayRight =>
              /\ center' = center
              /\ DayNumberVisible(center, DayNumber(sel) + 1) =>
                    ValidDate(sel') /\ DayNumber(sel') = DayNumber(sel) + 1
              /\ sel = RangeEnd(center) => sel' = sel
      ]_vars

\* C4 witness: NavigateDayLeft has crossed from the first of the centre
\* month to the last day of the month before.
C4_Witness ==
    /\ lastOp = "NavigateDayLeft"
    /\ lastRet
    /\ MonthNumber(sel) = MonthNumber(center) - 1
    /\ sel.d = MonthLength(sel.y, sel.m)

C6_InversePairs ==
    InVisibleRange(center, sel) =>
        LET l == navigateDayLeft(center, sel)
            r == navigateDayRight(center, sel)
            u == navigateDayUp(center, sel)
            d == navigateDayDown(center, sel)
        IN  /\ l # sel => navigateDayRight(center, l) = sel
            /\ r # sel => navigateDayLeft(center, r) = sel
            /\ u # sel => navigateDayDown(center, u) = sel
            /\ d # sel => navigateDayUp(center, d) = sel

\* C6 witness: NavigateDayDown has just changed the selection to a date
\* from which NavigateDayDown is refused but NavigateDayUp goes back.
C6_Witness ==
    /\ lastOp = "NavigateDayDown"
    /\ lastRet
    /\ navigateDayDown(center, sel) = sel
    /\ navigateDayUp(center, sel) # sel

\* C7, as claimed: with the window centred on August and August 15
\* selected, NavigateMonthBackward (the centre becomes July) leaves July 15
\* selected.
C7_Claimed ==
    [][ (NavigateMonthBackward /\ center.m = 8 /\ sel = MkDate(center.y, 8, 15)) =>
            (center' = MkDate(center.y, 7, 1) /\ sel' = MkDate(center.y, 7, 15))
      ]_vars

\* C7, amended: with the window centred on August and August 15 selected,
\* NavigateMonthBackward makes July the centre and leaves August 15
\* selected: that date is still in the visible range (June to August), so
\* the selection is not moved and its day number stays 15.
C7_ShiftKeepsVisibleSelection ==
    [][ (NavigateMonthBackward /\ center.m = 8 /\ sel = MkDate(center.y, 8, 15)) =>
            (center' = MkDate(center.y, 7, 1) /\ sel' = MkDate(center.y, 8, 15))
      ]_vars

\* C7 witness: the window has just been shifted back to July with August 15
\* selected.
C7_Witness ==
    /\ lastOp = "NavigateMonthBackward"
    /\ center = MkDate(center.y, 7, 1)
    /\ sel = MkDate(center.y, 8, 15)

\* C8: after a month shift the selection is unchanged if it lies in the new
\* visible range; otherwise it is day min(d, length of the new centre
\* month) of the new centre month, d being the selected day of month before
\* the shift.  Either way the day of month is d unless the new centre month
\* has no day d.
C8_MonthShiftSelection ==
    [][ (NavigateMonthBackward \/ NavigateMonthForward) =>
            LET d   == sel.d
                len == MonthLength(center'.y, center'.m)
            IN  /\ InVisibleRange(center', sel) => sel' = sel
                /\ ~InVisibleRange(center', sel) =>
                      sel' = MkDate(center'.y, center'.m, IF d < len THEN d ELSE len)
                /\ d <= len => sel'.d = d
      ]_vars

\* C8 witness: a shift has put the selection on the last day of a centre
\* month that is shorter than 31 days, the selection having left the window.
C8_Witness ==
    /\ lastOp \in {"NavigateMonthBackward", "NavigateMonthForward"}
    /\ lastRet
    /\ MonthNumber(sel) = MonthNumber(center)
    /\ sel.d = MonthLength(center.y, center.m)
    /\ sel.d < 31

\* C9: every month shift moves the centre month by exactly one calendar
\* month (to the first day of it), and the opposite shift restores the
\* centre month exactly, also across the December/January rollover.
C9_MonthShiftRoundTrip ==
    [][ /\ NavigateMonthForward =>
              /\ MonthNumber(center') = MonthNumber(center) + 1
              /\ center'.d = 1 /\ ValidDate(center')
              /\ navigateMonthBackward(center', sel').center = center
        /\ NavigateMonthBackward =>
              /\ MonthNumber(center') = MonthNumber(center) - 1
              /\ center'.d = 1 /\ ValidDate(center')
              /\ navigateMonthForward(center', sel').center = center
      ]_vars

\* C9 witness: a forward shift has rolled the centre over from December to
\* January of the next year.
C9_Witness ==
    /\ lastOp = "NavigateMonthForward"
    /\ center = MkDate(FirstYear + 1, 1, 1)

\* C10: SetSelection(date) reports success and selects date if and only if
\* date lies in the visible range, both end days included; otherwise it
\* reports failure and leaves the selection unchanged.  The centre month is
\* unchanged either way.  The first part states this of the call with every
\* input date in every reachable state, the second of every SetSelection
\* step taken.
C10_SetSelection ==
    /\ [](\A date \in SetSelectionInputs(center) :
            LET r == setSelection(center, sel, date) IN
            IF InVisibleRange(center, date)
            THEN r.ok /\ r.sel = date
            ELSE ~r.ok /\ r.sel = sel)
    /\ [][ SetSelection =>
             /\ center' = center
             /\ lastRet' => InVisibleRange(center, sel')
             /\ ~lastRet' => sel' = sel
         ]_vars

\* C10 witness: SetSelection has succeeded with the last day of the visible range.
C10_Witness ==
    /\ lastOp = "SetSelection"
    /\ lastRet
    /\ sel = RangeEnd(center)

\* C11: NavigateDayLeft, NavigateDayRight, NavigateDayUp, NavigateDayDown and
\* SetSelection never change the centre month, whether the move is committed
\* or rejected; the centre month changes only in a month shift.
C11_DayMovesKeepCenter ==
    [][ /\ lastOp' \in {"NavigateDayLeft", "NavigateDayRight", "NavigateDayUp",
                      "NavigateDayDown", "SetSelection"} => center' = center
        /\ center' # center =>
              lastOp' \in {"NavigateMonthBackward", "NavigateMonthForward"} ]_vars

\* A day move to the right was rejected at the last visible day, where a
\* scrolling window would have moved.
C11_Witness ==
    /\ lastOp = "NavigateDayRight"
    /\ ~lastRet
    /\ sel = RangeEnd(center)

----------------------------------------------------------------------------
(* The NavigationController called on any window and selection.  A search  *)
(* jump centres the window on the month of the chosen event and leaves the *)
(* selection where it was when the event's date was not visible, so the    *)
(* controller may be called with any selection under any centre month.     *)

\* The dates that may be selected: every day from the December before the
\* model's years to the January after them.
AdriftDates ==
    { AddDate(MkDate(FirstYear - 1, 12, 1), 0, 0, k) : k \in 0..(366 * NumYears + 61) }

\* The months the window may be centred on.
AdriftCenters ==
    { c \in { GoDate(FirstYear - 1, 12 + k, 1) : k \in 0..(12 * NumYears + 1) } :
         ~Before(c, MinCenter) /\ ~After(c, MaxCenter) }

\* processSearchResultSelection has centred the window on c, s being selected.
AdriftInit ==
    \E c \in AdriftCenters : \E s \in AdriftDates :
       /\ center = c
       /\ sel = s
       /\ state = "StateCalendar"
       /\ running = TRUE
       /\ events = << >>
    /\ stored = << >>
       /\ searchQuery = << >>
       /\ searchResults = << >>
       /\ searchResultDates = << >>
       /\ selectedResultIndex = 0
       /\ selectedEventIndex = 0
       /\ input = << >>
       /\ inputRet = NoCall
       /\ queried = NoQuery
       /\ arg = << >>
       /\ lastOp = "processSearchResultSelection"
       /\ lastRet = FALSE

ControllerOps ==
    { "NavigateMonthBackward", "NavigateMonthForward", "NavigateDayLeft",
      "NavigateDayRight", "NavigateDayUp", "NavigateDayDown" }

\* The window and the selection after the controller's operation op.
controllerCall(op, c, s) ==
    CASE op = "NavigateMonthBackward" -> navigateMonthBackward(c, s)
      [] op = "NavigateMonthForward"  -> navigateMonthForward(c, s)
      [] op = "NavigateDayLeft"       -> [center |-> c, sel |-> navigateDayLeft(c, s)]
      [] op = "NavigateDayRight"      -> [center |-> c, sel |-> navigateDayRight(c, s)]
      [] op = "NavigateDayUp"         -> [center |-> c, sel |-> navigateDayUp(c, s)]
      [] op = "NavigateDayDown"       -> [center |-> c, sel |-> navigateDayDown(c, s)]

\* One of the controller's operations is called; arg records the window and
\* the selection it started from, lastRet whether the selection changed.
ControllerCall ==
    \E op \in ControllerOps :
       /\ lastOp' = op
       /\ op = "NavigateMonthBackward" => Before(MinCenter, center)
       /\ op = "NavigateMonthForward" => Before(center, MaxCenter)
       /\ LET r == controllerCall(op, center, sel) IN
             /\ center' = r.center
             /\ sel' = r.sel
             /\ lastRet' = (r.sel # sel)
       /\ arg' = <<[center |-> center, sel |-> sel]>>
       /\ UNCHANGED <<state, running, events, stored, searchQuery, searchResults,
                      searchResultDates, selectedResultIndex, selectedEventIndex,
                      input, inputRet, queried>>

AdriftNext == ControllerCall

AdriftSpec == AdriftInit /\ [][AdriftNext]_vars

\* Selection.isDateWithinBounds
isDateWithinBounds(c, date) ==
    LET prevMonth  == GetPreviousMonth(c)
        nextMonth  == GetNextMonth(c)
        startRange == GoDate(prevMonth.y, prevMonth.m, 1)
        endRange   == AddDate(GoDate(nextMonth.y, nextMonth.m + 1, 1), 0, 0, -1)
    IN  ~Before(date, startRange) /\ ~After(date, endRange)

\* Selection.MoveLeft, MoveRight, MoveUp, MoveDown: the new selection
MoveLeft(c, s) ==
    LET newDate == AddDate(s, 0, 0, -1) IN
    IF isDateWithinBounds(c, newDate) THEN newDate ELSE s

MoveRight(c, s) ==
    LET newDate == AddDate(s, 0, 0, 1) IN
    IF isDateWithinBounds(c, newDate) THEN newDate ELSE s

MoveUp(c, s) ==
    LET newDate == AddDate(s, 0, 0, -7) IN
    IF isDateWithinBounds(c, newDate) THEN newDate ELSE s

MoveDown(c, s) ==
    LET newDate == AddDate(s, 0, 0, 7) IN
    IF isDateWithinBounds(c, newDate) THEN newDate ELSE s

\* C32: from any state, including one in which the selected date is
\* outside the visible range, a single NavigateMonthBackward or
\* NavigateMonthForward ends with the selected date inside the new visible
\* range.
C32_ShiftRestoresVisibility ==
    [][lastOp' \in {"NavigateMonthBackward", "NavigateMonthForward"} =>
          InVisibleRange(center', sel')]_vars

\* A month shift has brought a selection that was outside the visible
\* range, and outside the range of the shifted window too, into the range.
C32_Witness ==
    /\ lastOp \in {"NavigateMonthBackward", "NavigateMonthForward"}
    /\ Len(arg) = 1
    /\ ~InVisibleRange(arg[1].center, arg[1].sel)
    /\ ~InVisibleRange(center, arg[1].sel)
    /\ InVisibleRange(center, sel)

\* The first day of the calendar month after the month of t, and the last
\* day of the calendar month before it.
FirstOfFollowingMonth(t) ==
    IF t.m = 12 THEN MkDate(t.y + 1, 1, 1) ELSE MkDate(t.y, t.m + 1, 1)

LastOfPrecedingMonth(t) ==
    IF t.m = 1 THEN MkDate(t.y - 1, 12, 31)
    ELSE MkDate(t.y, t.m - 1, MonthLength(t.y, t.m - 1))

\* C33: from any state, including a selection outside the visible range,
\* when the one-day candidate of NavigateDayRight is out of range and the
\* selection is on the last day of its month, the only date the operation
\* can commit is the first day of the immediately following calendar month;
\* NavigateDayLeft from day 1 can only commit the last day of the
\* immediately preceding month; and no day move to the left or right
\* changes the selection by more than one day.
C33_BoundaryMoveOneDay ==
    [][ /\ lastOp' = "NavigateDayRight" =>
              /\ sel.d = MonthLength(sel.y, sel.m) =>
                    sel' \in {sel, FirstOfFollowingMonth(sel)}
              /\ DayNumber(sel') - DayNumber(sel) \in {0, 1}
        /\ lastOp' = "NavigateDayLeft" =>
              /\ sel.d = 1 => sel' \in {sel, LastOfPrecedingMonth(sel)}
              /\ DayNumber(sel) - DayNumber(sel') \in {0, 1} ]_vars

\* C36: whenever the selected date lies inside the visible range,
\* NavigateDayLeft, NavigateDayRight, NavigateDayUp and NavigateDayDown
\* produce exactly the selection that Selection.MoveLeft, MoveRight, MoveUp
\* and MoveDown produce on the same state: the controller's extra
\* month-boundary branch never commits a date that the plain range-checked
\* one-day move would not.
C36_ControllerMovesAsSelection ==
    [][InVisibleRange(center, sel) =>
          /\ lastOp' = "NavigateDayLeft"  => sel' = MoveLeft(center, sel)
          /\ lastOp' = "NavigateDayRight" => sel' = MoveRight(center, sel)
          /\ lastOp' = "NavigateDayUp"    => sel' = MoveUp(center, sel)
          /\ lastOp' = "NavigateDayDown"  => sel' = MoveDown(center, sel)]_vars

\* NavigateDayRight was called on the last day of the visible range, where
\* its month-boundary branch is entered, and left the selection alone.
C36_Witness ==
    /\ lastOp = "NavigateDayRight"
    /\ Len(arg) = 1
    /\ arg[1].sel = RangeEnd(arg[1].center)
    /\ sel = arg[1].sel
    /\ center = arg[1].center

----------------------------------------------------------------------------
(* Properties of the application (checked under Spec).                     *)

\* C2: whenever the main loop renders after a handled key action, in any
\* mode, the selected date lies in the visible range of the current centre
\* month; choosing a search result is no exception.
C2_RenderedSelectionVisible ==
    lastOp # "New" => InVisibleRange(center, sel)

\* C3: Enter in search mode with a non-empty result list selects the date
\* of the highlighted result's event, centres the window on the first day
\* of that event's month, returns to calendar mode and clears the query and
\* the results, for every event date, visible or not when Enter is pressed.
C3_SearchJumpSelectsEventDate ==
    [][ (SearchShowEvents /\ Len(searchResults) > 0) =>
            LET ev == searchResults[selectedResultIndex + 1] IN
            /\ sel' = ev.date
            /\ center' = MkDate(ev.date.y, ev.date.m, 1)
            /\ state' = "StateCalendar"
            /\ searchQuery' = << >>
            /\ searchResults' = << >>
            /\ searchResultDates' = << >>
      ]_vars

----------------------------------------------------------------------------
(* The time prompt of the input handler: GetTimeInput, GetInlineTimeInput   *)
(* and GetInlineTimeInputWithDefault.  The three run the same key loop on a *)
(* strings.Builder; they differ in where they draw and in the pre-filled    *)
(* buffer.  Text is a sequence of one-character strings.                    *)

Digits == { DigitChars[i] : i \in 1..10 }

\* digit >= lo && digit <= hi, on runes
RuneBetween(digit, lo, hi) ==
    \E i \in 1..10 : \E l \in 1..10 : \E h \in 1..10 :
        /\ DigitChars[i] = digit /\ DigitChars[l] = lo /\ DigitChars[h] = hi
        /\ l <= i /\ i <= h

\* A validator that lets an hour begin with '0'.
isValidTimeDigit_LeadingZero(currentInput, digit) ==
    LET inputLen == Len(currentInput) IN
    IF inputLen >= 4 THEN FALSE
    ELSE CASE inputLen = 0 -> digit = "0" \/ digit = "1" \/ digit = "2"
           [] inputLen = 1 ->
                IF currentInput[1] = "1" \/ currentInput[1] = "0"
                THEN RuneBetween(digit, "0", "9")
                ELSE IF currentInput[1] = "2" THEN RuneBetween(digit, "0", "3")
                ELSE FALSE
           [] inputLen = 2 -> RuneBetween(digit, "0", "5")
           [] inputLen = 3 -> RuneBetween(digit, "0", "9")
           [] OTHER -> FALSE

\* A validator that takes any digit as the first minute digit.
isValidTimeDigit_AnyMinute(currentInput, digit) ==
    LET inputLen == Len(currentInput) IN
    IF inputLen >= 4 THEN FALSE
    ELSE CASE inputLen = 0 -> digit = "1" \/ digit = "2"
           [] inputLen = 1 ->
                IF currentInput[1] = "1" THEN RuneBetween(digit, "0", "9")
                ELSE IF currentInput[1] = "2" THEN RuneBetween(digit, "0", "3")
                ELSE FALSE
           [] inputLen = 2 -> RuneBetween(digit, "0", "9")
           [] inputLen = 3 -> RuneBetween(digit, "0", "9")
           [] OTHER -> FALSE

\* isValidTimeDigit: may digit be entered after currentInput?
isValidTimeDigit(currentInput, digit) ==
    LET inputLen == Len(currentInput) IN
    IF inputLen >= 4 THEN FALSE
    ELSE CASE inputLen = 0 -> digit = "1" \/ digit = "2"
           [] inputLen = 1 ->
                IF currentInput[1] = "1" THEN RuneBetween(digit, "0", "9")
                ELSE IF currentInput[1] = "2" THEN RuneBetween(digit, "0", "3")
                ELSE FALSE
           [] inputLen = 2 -> RuneBetween(digit, "0", "5")
           [] inputLen = 3 -> RuneBetween(digit, "0", "9")
           [] OTHER -> FALSE

\* A display that shows an incomplete buffer without placeholders.
formatTimeDisplay_NoHints(in) ==
    LET inputLen == Len(in) IN
    IF inputLen <= 2 THEN in
    ELSE SubSeq(in, 1, 2) \o <<":">> \o SubSeq(in, 3, IF inputLen >= 4 THEN 4 ELSE inputLen)

\* formatTimeDisplay: the buffer as shown, with the colon and the hints.
formatTimeDisplay(in) ==
    LET inputLen == Len(in) IN
    IF inputLen = 0 THEN << >>
    ELSE IF inputLen = 1 THEN in \o <<"_">>
    ELSE IF inputLen = 2 THEN in \o <<":", "_", "_">>
    ELSE IF inputLen = 3 THEN SubSeq(in, 1, 2) \o <<":">> \o SubSeq(in, 3, 3) \o <<"_">>
    ELSE SubSeq(in, 1, 2) \o <<":">> \o SubSeq(in, 3, 4)

\* The Backspace case of the key loops: the last character is removed.
\* A Backspace that removes nothing from a one-character buffer.
backspace_KeepFirst(in) ==
    IF Len(in) > 1 THEN SubSeq(in, 1, Len(in) - 1) ELSE in

backspace(in) ==
    IF Len(in) > 0 THEN SubSeq(in, 1, Len(in) - 1) ELSE in

\* The value of a decimal digit.
DigitNum(c) == CHOOSE n \in 0..9 : DigitChars[n + 1] = c

\* strconv.Atoi on text without a sign: it fails on the empty text and on
\* any character that is not a digit.
AtoiFails(t) == Len(t) = 0 \/ \E i \in 1..Len(t) : t[i] \notin Digits

RECURSIVE AtoiValue(_)
AtoiValue(t) ==
    IF Len(t) = 0 THEN 0
    ELSE 10 * AtoiValue(SubSeq(t, 1, Len(t) - 1)) + DigitNum(t[Len(t)])

\* calendar.ValidateTimeString: two parts around one colon, both numbers,
\* hour 0..23 and minute 0..59.
ValidateTimeString(timeStr) ==
    LET colons == { i \in 1..Len(timeStr) : timeStr[i] = ":" } IN
    IF Cardinality(colons) # 1 THEN FALSE
    ELSE LET i          == CHOOSE k \in colons : TRUE
             hourPart   == SubSeq(timeStr, 1, i - 1)
             minutePart == SubSeq(timeStr, i + 1, Len(timeStr))
         IN  IF AtoiFails(hourPart) \/ AtoiFails(minutePart) THEN FALSE
             ELSE /\ AtoiValue(hourPart) >= 0 /\ AtoiValue(hourPart) <= 23
                  /\ AtoiValue(minutePart) >= 0 /\ AtoiValue(minutePart) <= 59

\* GetInlineTimeInputWithDefault: the buffer pre-filled from defaultValue
\* (the colon of a five-character HH:MM is stripped).
prefill(defaultValue) ==
    IF Len(defaultValue) = 5 /\ defaultValue[3] = ":"
    THEN SubSeq(defaultValue, 1, 2) \o SubSeq(defaultValue, 4, 5)
    ELSE defaultValue

\* The default values the time prompt is called with: none (GetTimeInput,
\* GetInlineTimeInput) or the time of the event being edited.
TimeDefaults ==
    { << >> } \cup { GetTimeString(t) : t \in { [h |-> 9, m |-> 5], [h |-> 14, m |-> 30],
                                               [h |-> 23, m |-> 59] } }

Polling(default) ==
    [status |-> "polling", prompt |-> "Time:", value |-> << >>, prefill |-> prefill(default)]

\* A time prompt is opened.
TimeCall ==
    /\ lastOp' = "Call"
    /\ inputRet.status # "polling"
    /\ \E default \in TimeDefaults :
          /\ input' = prefill(default)
          /\ inputRet' = Polling(default)
    /\ lastRet' = FALSE
    /\ UNCHANGED <<navVars, running, state, events, stored, searchQuery, searchResults,
                   searchResultDates, selectedResultIndex, selectedEventIndex,
                   queried, arg>>

\* One pass of the key loop of a time prompt on the key polled: the buffer,
\* and whether the prompt goes on polling or returns, and what.
timeKey(buf, key) ==
    IF key = "Esc"
    THEN [buf |-> buf, status |-> "cancelled", value |-> << >>]
    ELSE IF key = "Enter"
    THEN LET result == formatTimeDisplay(buf) IN
         IF Len(result) = 5
         THEN [buf |-> buf, status |-> "ok", value |-> result]
         ELSE [buf |-> buf, status |-> "polling", value |-> << >>]
    ELSE IF key = "Backspace"
    THEN [buf |-> backspace(buf), status |-> "polling", value |-> << >>]
    ELSE IF key \in Digits /\ isValidTimeDigit(buf, key)
    THEN [buf |-> Append(buf, key), status |-> "polling", value |-> << >>]
    ELSE [buf |-> buf, status |-> "polling", value |-> << >>]

\* The polling prompt handles one key.
TimeKeyed(key) ==
    /\ inputRet.status = "polling"
    /\ LET r == timeKey(input, key) IN
          /\ input' = r.buf
          /\ inputRet' = [inputRet EXCEPT !.status = r.status, !.value = r.value]
    /\ UNCHANGED <<navVars, running, state, events, stored, searchQuery, searchResults,
                   searchResultDates, selectedResultIndex, selectedEventIndex,
                   queried, arg>>

\* default case of the key switch: a digit key; lastRet tells whether the
\* digit was accepted
TimeKeyDigit ==
    /\ lastOp' = "Digit"
    /\ \E digit \in Digits : TimeKeyed(digit)
    /\ lastRet' = (input' # input)

\* default case of the key switch: any other character
TimeKeyOther ==
    /\ lastOp' = "Other"
    /\ TimeKeyed(":")
    /\ lastRet' = FALSE

\* case termbox.KeyBackspace, termbox.KeyBackspace2; lastRet tells whether a
\* character was removed
TimeKeyBackspace ==
    /\ lastOp' = "Backspace"
    /\ TimeKeyed("Backspace")
    /\ lastRet' = (input' # input)

\* case termbox.KeyEnter: the prompt returns if the display is five
\* characters long; lastRet tells whether it returned
TimeKeyEnter ==
    /\ lastOp' = "Enter"
    /\ TimeKeyed("Enter")
    /\ lastRet' = (inputRet'.status = "ok")

\* case termbox.KeyEsc
TimeKeyEsc ==
    /\ lastOp' = "Esc"
    /\ TimeKeyed("Esc")
    /\ lastRet' = FALSE

TimeInit == Constructed(<< >>)

TimeNext ==
    \/ TimeCall
    \/ TimeKeyDigit
    \/ TimeKeyOther
    \/ TimeKeyBackspace
    \/ TimeKeyEnter
    \/ TimeKeyEsc

\* The time prompts of the input handler, one step per key.
TimeSpec == TimeInit /\ [][TimeNext]_vars

----------------------------------------------------------------------------
(* Properties of the time prompt (checked under TimeSpec).  The digits are  *)
(* read here as numbers, independently of the rune comparisons above.       *)

\* The acceptance table: buffer length and first digit against the digit d.
AcceptedByTable(buf, d) ==
    \/ Len(buf) = 0 /\ d \in {1, 2}
    \/ Len(buf) = 1 /\ buf[1] = "1" /\ d \in 0..9
    \/ Len(buf) = 1 /\ buf[1] = "2" /\ d \in 0..3
    \/ Len(buf) = 2 /\ d \in 0..5
    \/ Len(buf) = 3 /\ d \in 0..9

\* C12: a digit d is accepted exactly when the buffer is empty and d is 1 or
\* 2, or holds one digit '1' and d is 0..9, or holds one digit '2' and d is
\* 0..3, or holds two digits and d is 0..5, or holds three digits; with four
\* digits every digit is rejected.  An accepted digit is appended, a
\* rejected one leaves the buffer unchanged.
C12_DigitAcceptance ==
    /\ [](inputRet.status = "polling" =>
             \A digit \in Digits :
                 isValidTimeDigit(input, digit) <=> AcceptedByTable(input, DigitNum(digit)))
    /\ [][lastOp' = "Digit" =>
             IF lastRet'
             THEN /\ Len(input') = Len(input) + 1
                  /\ SubSeq(input', 1, Len(input)) = input
                  /\ AcceptedByTable(input, DigitNum(input'[Len(input')]))
             ELSE input' = input]_vars

\* A digit was rejected after the hour digit '2' (no hour 24..29), and the
\* buffer is still "2".
C12_Witness ==
    /\ lastOp = "Digit"
    /\ ~lastRet
    /\ input = <<"2">>

\* The four digits of the time h:m of day.
HHMM(h, m) == <<DigitChars[(h \div 10) + 1], DigitChars[(h % 10) + 1],
                DigitChars[(m \div 10) + 1], DigitChars[(m % 10) + 1]>>

\* buf is the beginning of the four digits of some time 00:00..23:59.
IsTimePrefix(buf) ==
    /\ Len(buf) <= 4
    /\ \E h \in 0..23 : \E m \in 0..59 : buf = SubSeq(HHMM(h, m), 1, Len(buf))

\* C13: in a time prompt opened with an empty buffer, after any sequence of
\* digit, Backspace and Enter keys the buffer holds at most four digits and
\* is a prefix of the digits HHMM of some time with HH <= 23 and MM <= 59.
C13_BufferIsTimePrefix ==
    inputRet.prefill = << >> => IsTimePrefix(input)

\* A fifth digit was rejected on a full buffer typed from empty.
C13_Witness ==
    /\ inputRet.status = "polling"
    /\ inputRet.prefill = << >>
    /\ Len(input) = 4
    /\ lastOp = "Digit"
    /\ ~lastRet

\* value is HH:MM, five characters, with HH in 00..23 and MM in 00..59.
IsClockTime(value) ==
    \E h \in 0..23 : \E m \in 0..59 :
        value = SubSeq(HHMM(h, m), 1, 2) \o <<":">> \o SubSeq(HHMM(h, m), 3, 4)

\* C14: a time prompt returns success only when Enter is pressed on a buffer
\* of exactly four digits; Enter on fewer digits is ignored and leaves the
\* buffer unchanged; the value returned is a five-character HH:MM with HH in
\* 00..23 and MM in 00..59, which ValidateTimeString (and so AddEvent and
\* EditEvent) accepts.
C14_SuccessOnlyWithFourDigits ==
    [][ /\ (inputRet.status = "polling" /\ inputRet'.status = "ok") =>
              /\ lastOp' = "Enter"
              /\ Len(input) = 4
              /\ IsClockTime(inputRet'.value)
              /\ ValidateTimeString(inputRet'.value)
        /\ (lastOp' = "Enter" /\ Len(input) < 4) =>
              /\ inputRet' = inputRet
              /\ input' = input ]_vars

\* C15: Backspace removes exactly the last digit of the buffer, whatever the
\* buffer holds, and does nothing on an empty buffer; an accepted digit
\* followed by Backspace gives the buffer back; after a Backspace the digits
\* accepted are those of the acceptance table for the digits that remain.
C15_BackspaceRemovesLast ==
    /\ [](inputRet.status = "polling" =>
             \A digit \in Digits :
                 isValidTimeDigit(input, digit) => backspace(Append(input, digit)) = input)
    /\ [](lastOp = "Backspace" =>
             \A digit \in Digits :
                 isValidTimeDigit(input, digit) <=> AcceptedByTable(input, DigitNum(digit)))
    /\ [][lastOp' = "Backspace" =>
             /\ inputRet' = inputRet
             /\ IF Len(input) = 0
                THEN input' = << >> /\ ~lastRet'
                ELSE /\ Len(input') = Len(input) - 1
                     /\ input = Append(input', input[Len(input)])]_vars

\* Backspace has cut a pre-filled 09:05 down to its first digit, a buffer no
\* typing produces.
C15_Witness ==
    /\ lastOp = "Backspace"
    /\ lastRet
    /\ input = <<"0">>

\* The display of a buffer as the format rule describes it: the first two
\* digits, a colon once there are two, the next two digits, and '_' for each
\* digit still missing once there is one.
Shown(buf) ==
    CASE Len(buf) = 0 -> << >>
      [] Len(buf) = 1 -> <<buf[1], "_">>
      [] Len(buf) = 2 -> <<buf[1], buf[2], ":", "_", "_">>
      [] Len(buf) = 3 -> <<buf[1], buf[2], ":", buf[3], "_">>
      [] OTHER        -> <<buf[1], buf[2], ":", buf[3], buf[4]>>

\* The display of the buffer of a prompt, and of a buffer one digit longer,
\* is as the format rule says.
DisplayAsShown ==
    /\ formatTimeDisplay(input) = Shown(input)
    /\ \A digit \in Digits :
          /\ formatTimeDisplay(Append(input, digit)) = Shown(Append(input, digit))
          /\ Len(input) = 4 =>
                formatTimeDisplay(Append(input, digit)) = formatTimeDisplay(input)

\* C16 as stated: the display is "" for no digit, H_ for one, HH:__ for two,
\* HH:M_ for three and HH:MM for four, never shows more than the first four
\* digits, and is five characters long exactly when the buffer holds at
\* least four digits.
C16_Claimed ==
    inputRet.status = "polling" =>
        /\ DisplayAsShown
        /\ Len(formatTimeDisplay(input)) = 5 <=> Len(input) >= 4

\* C16, amended: the display is "" for no digit, H_ for one, HH:__ for two,
\* HH:M_ for three and HH:MM for four, never shows more than the first four
\* digits, and is five characters long exactly when the buffer holds at
\* least two digits.
C16_DisplayFormat ==
    inputRet.status = "polling" =>
        /\ DisplayAsShown
        /\ Len(formatTimeDisplay(input)) = 5 <=> Len(input) >= 2

\* The third digit has just been typed: the display HH:M_ is five characters
\* long on a buffer of three digits.
C16_Witness ==
    /\ inputRet.status = "polling"
    /\ lastOp = "Digit"
    /\ lastRet
    /\ Len(input) = 3
    /\ Len(formatTimeDisplay(input)) = 5

\* value is HH:MM with HH in 10..23 and MM in 00..59.
IsEnteredTime(value) ==
    \E h \in 10..23 : \E m \in 0..59 :
        value = SubSeq(HHMM(h, m), 1, 2) \o <<":">> \o SubSeq(HHMM(h, m), 3, 4)

\* C37: the values a time prompt opened with an empty buffer can complete
\* with are exactly the times HH:MM with HH in 10..23 and MM in 00..59; no
\* time with hour 00..09 and nothing else is returned.
C37_CompletedValuesAreTimes ==
    (inputRet.status = "ok" /\ inputRet.prefill = << >>) => IsEnteredTime(inputRet.value)

\* buf can be typed into an empty buffer digit by digit under isValidTimeDigit.
RECURSIVE CanBeTyped(_)
CanBeTyped(buf) ==
    \/ buf = << >>
    \/ /\ CanBeTyped(SubSeq(buf, 1, Len(buf) - 1))
       /\ isValidTimeDigit(SubSeq(buf, 1, Len(buf) - 1), buf[Len(buf)])

\* C38: in every reachable state of a time prompt, also one pre-filled with
\* the time of an existing event and shortened with Backspace, a buffer of
\* fewer than four digits accepts at least one digit, and the buffer is a
\* prefix the acceptance rules could have produced from an empty buffer.
C38_BufferAcceptsAndIsTypable ==
    inputRet.status = "polling" =>
        /\ Len(input) < 4 => \E digit \in Digits : isValidTimeDigit(input, digit)
        /\ CanBeTyped(input)

----------------------------------------------------------------------------
(* The event manager: GetEventsForDate and AddEvent.  sort.Slice is Go's    *)
(* pattern-defeating quicksort (Go 1.19 and later, which the build asks     *)
(* for): a slice of at most maxInsertion elements is sorted by insertion;   *)
(* a longer one is partitioned around a pivot first.  Slice indices start   *)
(* at 0, as in the code.                                                    *)

\* Time.Before on the times of day of two events (time.Parse("15:04") puts
\* them on the same day).
TimeBefore(t, u) == t.h < u.h \/ (t.h = u.h /\ t.m < u.m)

\* data[i]
At(data, i) == data[i + 1]

\* data[i], data[j] = data[j], data[i]
Swap(data, i, j) == [data EXCEPT ![i + 1] = data[j + 1], ![j + 1] = data[i + 1]]

\* A comparison that puts the later of two events first.
Less_After(data, i, j) == TimeBefore(At(data, j).time, At(data, i).time)

\* The less function given to sort.Slice:
\* dateEvents[i].Time.Before(dateEvents[j].Time)
Less(data, i, j) == TimeBefore(At(data, i).time, At(data, j).time)

\* The longest slice sort.Slice sorts by insertion alone.
maxInsertion == 12

RECURSIVE sink(_, _, _)
sink(data, a, j) ==
    IF j > a /\ Less(data, j, j - 1) THEN sink(Swap(data, j, j - 1), a, j - 1) ELSE data

RECURSIVE insertFrom(_, _, _, _)
insertFrom(data, a, b, i) ==
    IF i < b THEN insertFrom(sink(data, a, i), a, b, i + 1) ELSE data

\* insertionSort of data[a:b]
insertionSort(data, a, b) == insertFrom(data, a, b, a + 1)

\* order2: the indices a, b in the order of their elements, counting a swap
order2(data, a, b, swaps) ==
    IF Less(data, b, a) THEN [lo |-> b, hi |-> a, swaps |-> swaps + 1]
    ELSE [lo |-> a, hi |-> b, swaps |-> swaps]

\* median: the index of the median of data[a], data[b], data[c]
median(data, a, b, c) ==
    LET r1 == order2(data, a, b, 0)
        r2 == order2(data, r1.hi, c, r1.swaps)
        r3 == order2(data, r1.lo, r2.lo, r2.swaps)
    IN  [pivot |-> r3.hi, swaps |-> r3.swaps]

\* choosePivot for a slice of 8 to 49 elements: the median of three
choosePivot(data, a, b) ==
    LET l == b - a IN
    median(data, a + (l \div 4) * 1, a + (l \div 4) * 2, a + (l \div 4) * 3)

\* partialInsertionSort on a slice of fewer than 50 elements: it reports
\* whether the slice is sorted already, and moves nothing.
partialInsertionSort(data, a, b) ==
    \A i \in (a + 1)..(b - 1) : ~Less(data, i, i - 1)

RECURSIVE scanUp(_, _, _, _)
scanUp(data, a, i, j) ==
    IF i <= j /\ Less(data, i, a) THEN scanUp(data, a, i + 1, j) ELSE i

RECURSIVE scanDown(_, _, _, _)
scanDown(data, a, i, j) ==
    IF i <= j /\ ~Less(data, j, a) THEN scanDown(data, a, i, j - 1) ELSE j

RECURSIVE partitionLoop(_, _, _, _)
partitionLoop(data, a, i, j) ==
    LET i2 == scanUp(data, a, i, j)
        j2 == scanDown(data, a, i2, j)
    IN  IF i2 > j2 THEN [data |-> Swap(data, j2, a), mid |-> j2]
        ELSE partitionLoop(Swap(data, i2, j2), a, i2 + 1, j2 - 1)

\* partition of data[a:b] around data[pivot]: elements before mid are less
\* than the pivot, elements after it are not.
partition(data, a, b, pivot) ==
    partitionLoop(Swap(data, a, pivot), a, a + 1, b - 1)

\* sort.Slice(data, less), for slices whose two sides of the first partition
\* have at most maxInsertion elements each (every slice of up to
\* maxInsertion + 1 elements).
sortSlice(data) ==
    LET n == Len(data) IN
    IF n <= maxInsertion THEN insertionSort(data, 0, n)
    ELSE LET c == choosePivot(data, 0, n) IN
         IF c.swaps = 0 /\ partialInsertionSort(data, 0, n) THEN data
         ELSE LET p == partition(data, 0, n, c.pivot) IN
              insertionSort(insertionSort(p.data, 0, p.mid), p.mid + 1, n)

\* time.Date(date.Year(), date.Month(), date.Day(), 0, 0, 0, 0, ...): the
\* day of a moment, without its time of day.
targetDate(date) == MkDate(date.y, date.m, date.d)

\* Manager.GetEventsForDate
GetEventsForDate(evs, date) == sortSlice(eventsOnDate(evs, targetDate(date)))

\* A check that compares the moment itself with the events' days.
HasEventsForDate_Exact(evs, date) ==
    \E i \in 1..Len(evs) : evs[i].date = date

\* Manager.HasEventsForDate
HasEventsForDate(evs, date) ==
    \E i \in 1..Len(evs) : targetDate(evs[i].date) = targetDate(date)

\* strings.TrimSpace, on text whose only white space is ' '
RECURSIVE TrimLeft(_)
TrimLeft(t) == IF Len(t) > 0 /\ t[1] = " " THEN TrimLeft(Tail(t)) ELSE t

RECURSIVE TrimRight(_)
TrimRight(t) ==
    IF Len(t) > 0 /\ t[Len(t)] = " " THEN TrimRight(SubSeq(t, 1, Len(t) - 1)) ELSE t

TrimSpace(t) == TrimRight(TrimLeft(t))

\* calendar.ParseTime on a string ValidateTimeString accepts:
\* time.Parse("15:04", s) wants an hour of one or two digits and a minute
\* of exactly two.
ParseTime(timeStr) ==
    LET i          == CHOOSE k \in 1..Len(timeStr) : timeStr[k] = ":"
        hourPart   == SubSeq(timeStr, 1, i - 1)
        minutePart == SubSeq(timeStr, i + 1, Len(timeStr))
    IN  [err  |-> Len(hourPart) > 2 \/ Len(minutePart) # 2,
         time |-> [h |-> AtoiValue(hourPart), m |-> AtoiValue(minutePart)]]

\* storage.ValidateEvent: the description is not blank (the time, formatted
\* back, is always valid).
ValidateEvent(event) == TrimSpace(event.desc) # << >>

\* storage.convertJSONToEvent: the event of a record, and whether the record
\* is refused: time.Parse wants a date of the calendar, the time has to
\* pass ValidateTimeString and ParseTime, and the description may not be
\* blank; it is kept as it is written.
convertJSONToEvent(jsonEvent) ==
    LET date    == jsonEvent.Date
        dateErr == \/ date[2] \notin 1..12
                   \/ date[3] < 1
                   \/ date[3] > GoDaysIn(date[1], date[2])
        timeErr == IF ValidateTimeString(jsonEvent.Time)
                   THEN ParseTime(jsonEvent.Time).err ELSE TRUE
    IN  [err   |-> dateErr \/ timeErr \/ TrimSpace(jsonEvent.Description) = << >>,
         event |-> [date |-> MkDate(date[1], date[2], date[3]),
                    time |-> IF timeErr THEN [h |-> 0, m |-> 0]
                             ELSE ParseTime(jsonEvent.Time).time,
                    desc |-> jsonEvent.Description]]

\* storage.LoadEventsJSON: the events of the records of the file, in their
\* order; a record that is refused is skipped.
RECURSIVE LoadEventsJSON(_)
LoadEventsJSON(file) ==
    IF file = << >> THEN << >>
    ELSE LET converted == convertJSONToEvent(Head(file)) IN
         (IF converted.err THEN << >> ELSE <<converted.event>>) \o LoadEventsJSON(Tail(file))

\* A storage delete that takes out the first matching event only.
DeleteEventWithConfig_First(evs, eventToDelete, written) ==
    LET found == { i \in 1..Len(evs) : evs[i] = eventToDelete } IN
    IF found = {} \/ ~written THEN [events |-> evs, ok |-> FALSE]
    ELSE LET i == CHOOSE k \in found : \A l \in found : k <= l IN
         [events |-> SubSeq(evs, 1, i - 1) \o SubSeq(evs, i + 1, Len(evs)), ok |-> TRUE]

\* storage.SaveEventWithConfig (SaveEventJSON), evs being what LoadEventsJSON
\* read from the file: the event is appended and the whole handed to
\* SaveEventsJSON; written tells whether the file could be read and
\* written.  The events to write and whether the call succeeded.
SaveEventWithConfig(evs, event, written) ==
    IF ~written THEN [events |-> evs, ok |-> FALSE]
    ELSE [events |-> Append(evs, event), ok |-> TRUE]

\* storage.DeleteEventWithConfig, evs being what LoadEventsJSON read from the
\* file: every event equal to eventToDelete in date, time and description
\* is dropped and the rest handed to SaveEventsJSON; the call fails, and
\* writes nothing, if there is none.
DeleteEventWithConfig(evs, eventToDelete, written) ==
    LET updatedEvents ==
            SelectSeq(evs, LAMBDA event :
                ~(/\ event.date = eventToDelete.date
                  /\ event.time = eventToDelete.time
                  /\ event.desc = eventToDelete.desc))
    IN  IF Len(updatedEvents) = Len(evs) THEN [events |-> evs, ok |-> FALSE]
        ELSE IF ~written THEN [events |-> evs, ok |-> FALSE]
        ELSE [events |-> updatedEvents, ok |-> TRUE]

\* storage.UpdateEventWithConfig, evs being what LoadEventsJSON read from the
\* file: the first event equal to oldEvent is replaced by newEvent and the
\* whole handed to SaveEventsJSON; the call fails, and writes nothing, if
\* there is none or if newEvent is not valid.
UpdateEventWithConfig(evs, oldEvent, newEvent, written) ==
    LET found == { i \in 1..Len(evs) : evs[i] = oldEvent } IN
    IF found = {} THEN [events |-> evs, ok |-> FALSE]
    ELSE IF ~ValidateEvent(newEvent) THEN [events |-> evs, ok |-> FALSE]
    ELSE IF ~written THEN [events |-> evs, ok |-> FALSE]
    ELSE LET i == CHOOSE k \in found : \A l \in found : k <= l IN
         [events |-> [evs EXCEPT ![i] = newEvent], ok |-> TRUE]

\* The file after a call of storage that returned s: the events of a call
\* that succeeded are written by SaveEventsJSON.
Written(file, s) == IF s.ok THEN SaveEventsJSON(s.events) ELSE file

\* An AddEvent that does not store a value it already holds.
AddEvent_Dedup(evs, date, timeStr, description, saved) ==
    IF ~ValidateTimeString(timeStr) \/ Len(description) = 0 \/ ParseTime(timeStr).err
    THEN [events |-> evs, ok |-> FALSE]
    ELSE LET event == [date |-> date, time |-> ParseTime(timeStr).time, desc |-> description] IN
         IF ~ValidateEvent(event) \/ ~saved THEN [events |-> evs, ok |-> FALSE]
         ELSE IF \E i \in 1..Len(evs) : evs[i] = event THEN [events |-> evs, ok |-> TRUE]
         ELSE [events |-> Append(evs, event), ok |-> TRUE]

\* An AddEvent that appends before it writes to storage.
AddEvent_AppendFirst(evs, date, timeStr, description, saved) ==
    IF ~ValidateTimeString(timeStr) \/ Len(description) = 0 \/ ParseTime(timeStr).err
    THEN [events |-> evs, ok |-> FALSE]
    ELSE LET event == [date |-> date, time |-> ParseTime(timeStr).time, desc |-> description] IN
         IF ~ValidateEvent(event) THEN [events |-> evs, ok |-> FALSE]
         ELSE [events |-> Append(evs, event), ok |-> saved]

\* Manager.AddEvent: the new collection and whether the call succeeded;
\* saved tells whether storage wrote the event.
AddEvent(evs, date, timeStr, description, saved) ==
    IF ~ValidateTimeString(timeStr) THEN [events |-> evs, ok |-> FALSE]
    ELSE IF Len(description) = 0 THEN [events |-> evs, ok |-> FALSE]
    ELSE IF ParseTime(timeStr).err THEN [events |-> evs, ok |-> FALSE]
    ELSE LET event == [date |-> date, time |-> ParseTime(timeStr).time, desc |-> description] IN
         IF ~ValidateEvent(event) THEN [events |-> evs, ok |-> FALSE]
         ELSE IF ~saved THEN [events |-> evs, ok |-> FALSE]
         ELSE [events |-> Append(evs, event), ok |-> TRUE]

\* A DeleteEvent that takes the event out of memory before it asks storage.
DeleteEvent_MemoryFirst(evs, eventToDelete, removed) ==
    LET updatedEvents == SelectSeq(evs, LAMBDA event : event # eventToDelete) IN
    IF Len(updatedEvents) = Len(evs) THEN [events |-> evs, ok |-> FALSE]
    ELSE [events |-> updatedEvents, ok |-> removed]

\* Manager.DeleteEvent: the new collection and whether the call succeeded;
\* removed tells whether storage removed the event.  The loop over m.events
\* skips every event equal to eventToDelete in date, time and description
\* and keeps the others; found is whether it skipped any.
DeleteEvent(evs, eventToDelete, removed) ==
    IF ~removed THEN [events |-> evs, ok |-> FALSE]
    ELSE LET updatedEvents ==
                 SelectSeq(evs, LAMBDA event :
                     ~(/\ event.date = eventToDelete.date
                       /\ event.time = eventToDelete.time
                       /\ event.desc = eventToDelete.desc))
         IN  IF Len(updatedEvents) = Len(evs) THEN [events |-> evs, ok |-> FALSE]
             ELSE [events |-> updatedEvents, ok |-> TRUE]

\* An EditEvent that replaces every stored event equal to oldEvent.
EditEvent_All(evs, oldEvent, date, timeStr, description, updated) ==
    IF ~ValidateTimeString(timeStr) \/ Len(description) = 0 \/ ParseTime(timeStr).err
    THEN [events |-> evs, ok |-> FALSE]
    ELSE LET newEvent == [date |-> date, time |-> ParseTime(timeStr).time,
                          desc |-> description]
         IN  IF ~ValidateEvent(newEvent) \/ ~updated \/ \A i \in 1..Len(evs) : evs[i] # oldEvent
             THEN [events |-> evs, ok |-> FALSE]
             ELSE [events |-> [i \in 1..Len(evs) |->
                                  IF evs[i] = oldEvent THEN newEvent ELSE evs[i]],
                   ok |-> TRUE]

\* An EditEvent that takes oldEvent out of memory before it validates the
\* new value.
EditEvent_RemoveFirst(evs, oldEvent, date, timeStr, description, updated) ==
    LET kept == SelectSeq(evs, LAMBDA event : event # oldEvent) IN
    IF ~ValidateTimeString(timeStr) \/ Len(description) = 0 \/ ParseTime(timeStr).err
    THEN [events |-> kept, ok |-> FALSE]
    ELSE LET newEvent == [date |-> date, time |-> ParseTime(timeStr).time,
                          desc |-> description]
             found    == { i \in 1..Len(evs) : evs[i] = oldEvent }
         IN  IF ~ValidateEvent(newEvent) THEN [events |-> kept, ok |-> FALSE]
             ELSE IF ~updated \/ found = {} THEN [events |-> evs, ok |-> FALSE]
             ELSE LET i == CHOOSE k \in found : \A l \in found : k <= l IN
                  [events |-> [evs EXCEPT ![i] = newEvent], ok |-> TRUE]

\* Manager.EditEvent: the new collection and whether the call succeeded;
\* updated tells whether storage replaced the event.
EditEvent(evs, oldEvent, date, timeStr, description, updated) ==
    IF ~ValidateTimeString(timeStr) THEN [events |-> evs, ok |-> FALSE]
    ELSE IF Len(description) = 0 THEN [events |-> evs, ok |-> FALSE]
    ELSE IF ParseTime(timeStr).err THEN [events |-> evs, ok |-> FALSE]
    ELSE LET newEvent == [date |-> date, time |-> ParseTime(timeStr).time,
                          desc |-> description]
             found    == { i \in 1..Len(evs) : evs[i] = oldEvent }
         IN  IF ~ValidateEvent(newEvent) THEN [events |-> evs, ok |-> FALSE]
             ELSE IF ~updated THEN [events |-> evs, ok |-> FALSE]
             ELSE IF found = {} THEN [events |-> evs, ok |-> FALSE]
             ELSE LET i == CHOOSE k \in found : \A l \in found : k <= l IN
                  [events |-> [evs EXCEPT ![i] = newEvent], ok |-> TRUE]

\* The file after a workflow's AddEvent took memory from evs to evs2: the
\* manager appends only after SaveEventWithConfig has written the event.
StoredAfterAdd(file, evs, evs2) ==
    IF Len(evs2) = Len(evs) + 1
    THEN Written(file, SaveEventWithConfig(LoadEventsJSON(file), evs2[Len(evs2)], TRUE))
    ELSE file

\* The file after a workflow's DeleteEvent took memory from evs to evs2: the
\* manager drops events only after DeleteEventWithConfig has succeeded on
\* the event it was given, which memory holds no longer.
StoredAfterDelete(file, evs, evs2) ==
    IF evs2 = evs THEN file
    ELSE LET i == CHOOSE k \in 1..Len(evs) : \A l \in 1..Len(evs2) : evs2[l] # evs[k] IN
         Written(file, DeleteEventWithConfig(LoadEventsJSON(file), evs[i], TRUE))

\* The file after a workflow's EditEvent took memory from evs to evs2: the
\* manager replaces oldEvent only after UpdateEventWithConfig has succeeded
\* with the new event.
StoredAfterEdit(file, evs, evs2, oldEvent) ==
    IF evs2 = evs THEN file
    ELSE LET i == CHOOSE k \in 1..Len(evs) : evs2[k] # evs[k] IN
         Written(file, UpdateEventWithConfig(LoadEventsJSON(file), oldEvent, evs2[i], TRUE))

\* The most events the manager holds when AddEvent is called in the model.
MaxEvents == 3

\* A day with one event more than sort.Slice sorts by insertion: two events
\* at noon, then one on each hour from 01:00 to 11:00.
BusyDate == MkDate(FirstYear, 6, 15)

BusyDay ==
    [i \in 1..(maxInsertion + 1) |->
        [date |-> BusyDate,
         time |-> IF i <= 2 THEN [h |-> 12, m |-> 0] ELSE [h |-> i - 2, m |-> 0],
         desc |-> IF i = 1 THEN <<"a">> ELSE IF i = 2 THEN <<"b">> ELSE <<"c">>]]

\* What the manager may have loaded.
IndexCollections == { << >>, StoredEvents, BusyDay }

\* The dates the manager is given events for and asked about.
AddDates == { MkDate(FirstYear, 3, 10), MkDate(FirstYear, 4, 10) }

QueryDates == AddDates \cup { BusyDate }

\* The time strings and descriptions AddEvent is called with.
TimeStrings ==
    { <<"1", "0", ":", "0", "0">>, <<"0", "9", ":", "3", "0">>, <<"1", "2", ":", "_", "_">> }

Descriptions == { <<"a">>, <<"b", " ">>, << >> }

\* A query that sorts the manager's own slice.
ManagerGetEventsForDate_InPlace ==
    /\ lastOp' = "GetEventsForDate"
    /\ \E date \in QueryDates :
          /\ queried' = [asked |-> TRUE, date |-> date,
                         dateEvents |-> GetEventsForDate(events, date)]
          /\ events' = sortSlice(events)
          /\ lastRet' = (queried.asked /\ queried.date = date)
    /\ arg' = << >>
    /\ UNCHANGED <<navVars, running, state, stored, searchQuery, searchResults,
                   searchResultDates, selectedResultIndex, selectedEventIndex, input, inputRet>>

\* Manager.GetEventsForDate(date); lastRet records whether the same date was
\* asked about just before.
ManagerGetEventsForDate ==
    /\ lastOp' = "GetEventsForDate"
    /\ \E date \in QueryDates :
          /\ queried' = [asked |-> TRUE, date |-> date,
                         dateEvents |-> GetEventsForDate(events, date)]
          /\ lastRet' = (queried.asked /\ queried.date = date)
    /\ arg' = << >>
    /\ UNCHANGED <<navVars, running, state, events, stored, searchQuery, searchResults, searchResultDates,
                   selectedResultIndex, selectedEventIndex, input, inputRet>>

\* The times of day of the moments HasEventsForDate is asked about.
QueryHours == { 0, 15 }

\* A moment on the day of date.
Moment(date, hour) == [y |-> date.y, m |-> date.m, d |-> date.d, hh |-> hour]

\* Manager.HasEventsForDate(date); queried keeps the day asked about and
\* lastRet the answer.
ManagerHasEventsForDate ==
    /\ lastOp' = "HasEventsForDate"
    /\ \E date \in QueryDates : \E hour \in QueryHours :
          /\ lastRet' = HasEventsForDate(events, Moment(date, hour))
          /\ queried' = [asked |-> FALSE, date |-> date, dateEvents |-> << >>]
    /\ arg' = << >>
    /\ UNCHANGED <<navVars, running, state, events, stored, searchQuery, searchResults, searchResultDates,
                   selectedResultIndex, selectedEventIndex, input, inputRet>>

\* Manager.AddEvent(date, timeStr, description)
ManagerAddEvent ==
    /\ lastOp' = "AddEvent"
    /\ Len(events) < MaxEvents
    /\ \E date \in AddDates : \E timeStr \in TimeStrings :
       \E description \in Descriptions : \E saved \in BOOLEAN :
       \E r \in { AddEvent(events, date, timeStr, description, saved) } :
          /\ events' = r.events
          /\ stored' = StoredAfterAdd(stored, events, r.events)
          /\ lastRet' = r.ok
          /\ arg' = <<[date |-> date, time |-> timeStr, desc |-> description]>>
    /\ queried' = NoQuery
    /\ UNCHANGED <<navVars, running, state, searchQuery, searchResults, searchResultDates,
                   selectedResultIndex, selectedEventIndex, input, inputRet>>

\* An event that is never stored: it differs from the first of StoredEvents
\* in its description only.
AbsentEvent == [StoredEvents[1] EXCEPT !.desc = <<"z">>]

\* The events DeleteEvent and EditEvent are called with: the stored events
\* of the dates events are added on, and the absent one.
EventArguments(evs) ==
    { evs[i] : i \in { k \in 1..Len(evs) : evs[k].date \in AddDates } } \cup { AbsentEvent }

\* Manager.DeleteEvent(eventToDelete)
ManagerDeleteEvent ==
    /\ lastOp' = "DeleteEvent"
    /\ \E loaded \in { LoadEventsJSON(stored) } :
       \E eventToDelete \in EventArguments(events) : \E removed \in BOOLEAN :
       \E s \in { DeleteEventWithConfig(loaded, eventToDelete, removed) } :
       \E r \in { DeleteEvent(events, eventToDelete, s.ok) } :
          /\ events' = r.events
          /\ stored' = Written(stored, s)
          /\ lastRet' = r.ok
          /\ arg' = <<eventToDelete>>
    /\ queried' = NoQuery
    /\ UNCHANGED <<navVars, running, state, searchQuery, searchResults, searchResultDates,
                   selectedResultIndex, selectedEventIndex, input, inputRet>>

\* The time strings and descriptions EditEvent is called with.
EditTimeStrings ==
    { <<"0", "9", ":", "3", "0">>, <<"2", "4", ":", "0", "0">>, <<"1", "0", ":", "6", "0">> }

EditDescriptions == { <<"a">>, << >> }

\* Manager.EditEvent(oldEvent, date, timeStr, description)
ManagerEditEvent ==
    /\ lastOp' = "EditEvent"
    /\ \E loaded \in { LoadEventsJSON(stored) } :
       \E oldEvent \in EventArguments(events) : \E date \in AddDates :
       \E timeStr \in EditTimeStrings : \E description \in EditDescriptions :
       \E updated \in BOOLEAN :
       \E valid \in { EditEvent(<<oldEvent>>, oldEvent, date, timeStr, description, TRUE) } :
       \E s \in { IF valid.ok
                  THEN UpdateEventWithConfig(loaded, oldEvent, valid.events[1], updated)
                  ELSE [events |-> loaded, ok |-> FALSE] } :
       \E r \in { EditEvent(events, oldEvent, date, timeStr, description, s.ok) } :
          /\ events' = r.events
          /\ stored' = Written(stored, s)
          /\ lastRet' = r.ok
          /\ arg' = <<oldEvent, [date |-> date, time |-> timeStr, desc |-> description]>>
    /\ queried' = NoQuery
    /\ UNCHANGED <<navVars, running, state, searchQuery, searchResults, searchResultDates,
                   selectedResultIndex, selectedEventIndex, input, inputRet>>

\* NewManager and LoadEvents; the host's date plays no part.
IndexInit == \E evs \in IndexCollections : ConstructedOn(BusyDate, evs)

IndexNext ==
    \/ ManagerGetEventsForDate
    \/ ManagerHasEventsForDate
    \/ ManagerAddEvent
    \/ ManagerDeleteEvent

\* The event manager driven directly, one step per call.
IndexSpec == IndexInit /\ [][IndexNext]_vars

\* A collection that holds the first of StoredEvents twice, as LoadEvents
\* delivers it from a file with that line twice.
TwiceStored == <<StoredEvents[1], StoredEvents[2], StoredEvents[1]>>

EditCollections == { << >>, StoredEvents, TwiceStored }

EditInit == \E evs \in EditCollections : ConstructedOn(BusyDate, evs)

EditNext == ManagerEditEvent

\* The event manager's EditEvent called again and again.
EditSpec == EditInit /\ [][EditNext]_vars

\* The date the calls that write the file are made for.
StoreDate == StoredEvents[1].date

\* NewManagerWithConfig and LoadEvents on a file that holds no event, or
\* one of the stored events twice.
StoreInit == \E evs \in { << >>, TwiceStored } : ConstructedOn(BusyDate, evs)

\* The calls of the event manager that write the events file: AddEvent with
\* StoreDate while the manager holds fewer events than the fullest file it
\* starts with, DeleteEvent with an event of StoreDate or the absent one,
\* EditEvent of such an event to StoreDate.
StoreNext ==
    \/ ManagerAddEvent /\ Len(events) < Len(TwiceStored) /\ arg'[1].date = StoreDate
    \/ ManagerDeleteEvent /\ arg'[1].date = StoreDate
    \/ ManagerEditEvent /\ arg'[1].date = StoreDate /\ arg'[2].date = StoreDate

\* The calls that write the events file, in any order.
StoreSpec == StoreInit /\ [][StoreNext]_vars

\* C39: memory holding what the file holds after loading, after any
\* sequence of AddEvent, DeleteEvent and EditEvent calls, successful or
\* failed, the events in memory are the events LoadEvents would read from
\* the file, element for element and in the same order (and the file holds
\* no record besides), also when events equal in every field are held more
\* than once.
C39_MemoryEqualsStored ==
    /\ Len(stored) = Len(events)
    /\ events = LoadEventsJSON(stored)

\* DeleteEvent has just taken an event held twice from memory and from the
\* file, and another event is left in both.
C39_Witness ==
    /\ lastOp = "DeleteEvent"
    /\ lastRet
    /\ arg = <<TwiceStored[1]>>
    /\ Len(stored) = 1
    /\ events = <<TwiceStored[2]>>

----------------------------------------------------------------------------
(* Properties of the event manager (checked under IndexSpec).  Times are    *)
(* compared here as minutes of the day.                                     *)

Minutes(e) == e.time.h * 60 + e.time.m

\* How many times e occurs in list.
Count(list, e) == Cardinality({ i \in 1..Len(list) : list[i] = e })

\* The stored events on the day of date, in stored order.
StoredOn(date) == SelectSeq(events, LAMBDA e : e.date = date)

C19_TiesKeepInsertionOrder ==
    queried.asked =>
        LET r == queried.dateEvents
            f == StoredOn(queried.date)
        IN  \A i \in 1..Len(f) : \A j \in 1..Len(f) :
                Minutes(f[i]) = Minutes(f[j]) =>
                    SelectSeq(r, LAMBDA e : e \in {f[i], f[j]})
                        = SelectSeq(f, LAMBDA e : e \in {f[i], f[j]})

\* C20: GetEventsForDate is a query: it changes neither the stored events nor
\* their order, and asked twice for the same date with no change in between
\* it returns the same list.
C20_QueryLeavesEvents ==
    [][lastOp' = "GetEventsForDate" =>
          /\ events' = events
          /\ (queried.asked /\ queried'.date = queried.date) =>
                queried'.dateEvents = queried.dateEvents]_vars

\* The same date was asked about twice in a row, and the list returned is
\* in another order than the stored events of that date.
C20_Witness ==
    /\ lastOp = "GetEventsForDate"
    /\ queried.asked
    /\ lastRet
    /\ queried.dateEvents # StoredOn(queried.date)

\* C21: for every moment d and every state of the collection,
\* HasEventsForDate(d) is true exactly when GetEventsForDate(d) is not empty,
\* whatever the time of day of d; the answer HasEventsForDate gave says so.
C21_HasIffSomeEvents ==
    /\ \A date \in QueryDates : \A hour \in QueryHours : \A other \in QueryHours :
          HasEventsForDate(events, Moment(date, hour))
              <=> GetEventsForDate(events, Moment(date, other)) # << >>
    /\ lastOp = "HasEventsForDate" =>
          \A hour \in QueryHours :
              lastRet <=> GetEventsForDate(events, Moment(queried.date, hour)) # << >>

\* HasEventsForDate answered yes for one day while another day asked about
\* has no events.
C21_Witness ==
    /\ lastOp = "HasEventsForDate"
    /\ lastRet
    /\ \E date \in QueryDates : GetEventsForDate(events, Moment(date, 15)) = << >>
    /\ Len(events) > 1

\* C22: an AddEvent that succeeds appends exactly one event at the end of the
\* collection, the entries already there keeping their values and order, and
\* nothing is deduplicated: adding again the value of any stored event
\* succeeds (storage permitting) and appends a second copy.
C22_AddAppendsOne ==
    /\ [][(lastOp' = "AddEvent" /\ lastRet') =>
              /\ Len(events') = Len(events) + 1
              /\ SubSeq(events', 1, Len(events)) = events]_vars
    /\ [](\A i \in 1..Len(events) :
              LET e == events[i]
                  r == AddEvent(events, e.date, GetTimeString(e.time), e.desc, TRUE)
              IN  r.ok /\ r.events = Append(events, e))

\* AddEvent has just succeeded with a value that was already stored: the
\* collection holds it twice.
C22_Witness ==
    /\ lastOp = "AddEvent"
    /\ lastRet
    /\ Len(events) >= 2
    /\ \E i \in 1..(Len(events) - 1) : events[i] = events[Len(events)]

\* The positions of list that hold e.
Positions(list, e) == { i \in 1..Len(list) : list[i] = e }

\* list without its entry at position i.
Without(list, i) == SubSeq(list, 1, i - 1) \o SubSeq(list, i + 1, Len(list))

\* C23: a DeleteEvent that succeeds removes exactly one entry, the first
\* stored event equal to its argument in date, time and description: the
\* collection is one shorter and later copies of the value stay stored.
C23_DeleteRemovesFirstOnly ==
    [][(lastOp' = "DeleteEvent" /\ lastRet') =>
          LET at == Positions(events, arg'[1]) IN
          /\ at # {}
          /\ Len(events') = Len(events) - 1
          /\ events' = Without(events, CHOOSE i \in at : \A j \in at : i <= j)]_vars

\* C24: DeleteEvent called with an event that no stored entry equals in date,
\* time and description reports an error and leaves the collection as it
\* was, in size, contents and order; so does every DeleteEvent that fails.
C24_DeleteAbsentFails ==
    [][lastOp' = "DeleteEvent" =>
          /\ Positions(events, arg'[1]) = {} => ~lastRet'
          /\ ~lastRet' => events' = events]_vars

\* DeleteEvent has just been called with an event that differs from a stored
\* one in its description only, storage reporting no error.
C24_Witness ==
    /\ lastOp = "DeleteEvent"
    /\ ~lastRet
    /\ Len(arg) = 1
    /\ arg[1] = AbsentEvent
    /\ Len(events) = 3
    /\ events[1].date = AbsentEvent.date
    /\ events[1].time = AbsentEvent.time

\* Time strings that name no time of day: an hour above 23, a minute above
\* 59, no colon, no digits after the colon.
InvalidTimeStrings ==
    { <<"2", "4", ":", "0", "0">>, <<"1", "0", ":", "6", "0">>, <<"1", "0", "0", "0">>,
      <<"1", "2", ":", "_", "_">>, <<"2", "5", ":", "9", "9">>, << >> }

\* C27: AddEvent with a time string that is no H:M time (hour above 23,
\* minute above 59, or not of that form) or with an empty description
\* reports an error and leaves the collection and its size unchanged; so
\* does an AddEvent whose storage write fails, and every AddEvent that
\* reports an error.  Each of the invalid time strings is refused on every
\* collection, storage permitting and the description being valid.
C27_InvalidAddChangesNothing ==
    /\ [][lastOp' = "AddEvent" =>
              /\ (arg'[1].time \in InvalidTimeStrings \/ arg'[1].desc = << >>) => ~lastRet'
              /\ ~lastRet' => events' = events]_vars
    /\ [](\A date \in AddDates : \A timeStr \in InvalidTimeStrings :
              AddEvent(events, date, timeStr, <<"a">>, TRUE)
                  = [events |-> events, ok |-> FALSE])

\* AddEvent has just been refused on a collection that holds events, the
\* time string given being 12:__ and the description not empty.
C27_Witness ==
    /\ lastOp = "AddEvent"
    /\ ~lastRet
    /\ events # << >>
    /\ arg[1].time = <<"1", "2", ":", "_", "_">>
    /\ arg[1].desc # << >>

----------------------------------------------------------------------------
(* Properties of EditEvent (checked under EditSpec).                        *)

\* The time of day a five-character HH:MM string names.
ClockOf(value) ==
    CHOOSE c \in [h : 0..23, m : 0..59] :
        value = SubSeq(HHMM(c.h, c.m), 1, 2) \o <<":">> \o SubSeq(HHMM(c.h, c.m), 3, 4)

\* C25: an EditEvent that succeeds puts the new event in the place of the
\* first stored entry equal to oldEvent: the collection keeps its size and
\* every other entry, later copies of oldEvent included, keeps its value and
\* position.  When no entry equals oldEvent, EditEvent reports an error and
\* changes nothing.
C25_EditReplacesFirst ==
    [][lastOp' = "EditEvent" =>
          LET at == Positions(events, arg'[1]) IN
          /\ lastRet' =>
                /\ at # {}
                /\ events' = [events EXCEPT ![CHOOSE i \in at : \A j \in at : i <= j] =
                                  [date |-> arg'[2].date,
                                   time |-> ClockOf(arg'[2].time),
                                   desc |-> arg'[2].desc]]
          /\ at = {} => (~lastRet' /\ events' = events)]_vars

\* EditEvent has just succeeded on an event that was stored twice, with a
\* new value that differs from it: the later copy is still stored.
C25_Witness ==
    /\ lastOp = "EditEvent"
    /\ lastRet
    /\ Len(events) = 3
    /\ events[3] = arg[1]
    /\ events[1] # arg[1]
    /\ events[1].desc = arg[2].desc
    /\ events[1].date = arg[2].date

\* C26: an EditEvent whose new value is invalid, its description empty or
\* its time string not a time from 00:00 to 23:59, reports an error and
\* leaves the whole collection, the original entry included, as it was,
\* whatever storage would have answered.
C26_InvalidEditChangesNothing ==
    [][(/\ lastOp' = "EditEvent"
        /\ (arg'[2].desc = << >> \/ ~IsClockTime(arg'[2].time))) =>
          (~lastRet' /\ events' = events)]_vars

\* EditEvent has just been refused for a stored event, the new time being
\* 24:00 and the new description not empty.
C26_Witness ==
    /\ lastOp = "EditEvent"
    /\ ~lastRet
    /\ arg[2].time = <<"2", "4", ":", "0", "0">>
    /\ arg[2].desc # << >>
    /\ Positions(events, arg[1]) # {}

----------------------------------------------------------------------------
(* Adding and editing events from the calendar view.  A handler that opens  *)
(* prompts runs their key loops to the end before the main loop goes on, so *)
(* it is one step; the keys typed into its prompts are its inputs.          *)

\* A time prompt run on the keys typed, from the buffer buf.
RECURSIVE runTimeInput(_, _)
runTimeInput(buf, keys) ==
    IF keys = << >> THEN [buf |-> buf, status |-> "polling", value |-> << >>]
    ELSE LET r == timeKey(buf, Head(keys)) IN
         IF r.status = "polling" THEN runTimeInput(r.buf, Tail(keys)) ELSE r

\* One pass of the key loop of GetInlineTextInput and
\* GetInlineTextInputWithDefault; every character key is printable.
textKey(buf, key, maxLength) ==
    IF key = "Esc"
    THEN [buf |-> buf, status |-> "cancelled", value |-> << >>]
    ELSE IF key = "Enter"
    THEN [buf |-> buf, status |-> "ok", value |-> TrimSpace(buf)]
    ELSE IF key = "Backspace"
    THEN [buf |-> backspace(buf), status |-> "polling", value |-> << >>]
    ELSE IF key = "Space"
    THEN [buf |-> IF Len(buf) < maxLength THEN Append(buf, " ") ELSE buf,
          status |-> "polling", value |-> << >>]
    ELSE [buf |-> IF Len(buf) < maxLength THEN Append(buf, key) ELSE buf,
          status |-> "polling", value |-> << >>]

\* A text prompt run on the keys typed, from the buffer buf.
RECURSIVE runTextInput(_, _, _)
runTextInput(buf, keys, maxLength) ==
    IF keys = << >> THEN [buf |-> buf, status |-> "polling", value |-> << >>]
    ELSE LET r == textKey(buf, Head(keys), maxLength) IN
         IF r.status = "polling" THEN runTextInput(r.buf, Tail(keys), maxLength) ELSE r

\* What a prompt returned, as the history variable inputRet records it.
Returned(r, prompt, default) ==
    [status |-> r.status, prompt |-> prompt, value |-> r.value, prefill |-> default]

\* The keys typed into a time prompt, and into a description prompt.
TimeKeySeqs ==
    { <<"Esc">>,
      <<"1", "2", "Esc">>,
      <<"1", "Enter", "2", "3", "0", "Enter">>,
      <<"1", "4", "Enter">>,
      <<"Backspace", "Backspace", "3", "0", "Enter">> }

TextKeySeqs ==
    { <<"Esc">>,
      <<"a", "Space", "Esc">>,
      <<"Backspace", "Backspace", "Space", "b", "Space", "Enter">>,
      <<"Enter">>,
      <<"Backspace", "Backspace", "a", "Enter">> }

\* What GetInlineTimeInput (default << >>) and GetInlineTimeInputWithDefault
\* can return on those keys; keys that leave the prompt polling return nothing.
TimeReturns(default) ==
    { r \in { Returned(runTimeInput(prefill(default), keys), "Time:", prefill(default)) :
                keys \in TimeKeySeqs } : r.status # "polling" }

\* What GetInlineTextInput (default << >>) and GetInlineTextInputWithDefault
\* can return on those keys.
TextReturns(default) ==
    { r \in { Returned(runTextInput(default, keys, 100), "Description:", default) :
                keys \in TextKeySeqs } : r.status # "polling" }

\* An add workflow that goes on to AddEvent when the description prompt is
\* cancelled.
processAddEventFromCalendar_IgnoreCancel(evs, selectedDate, t, d, saved) ==
    IF t.status # "ok"
    THEN [events |-> evs, ret |-> t, called |-> FALSE]
    ELSE [events |-> AddEvent(evs, selectedDate, t.value, d.value, saved).events,
          ret |-> d, called |-> TRUE]

\* processAddEventFromCalendar, t being what the time prompt returns and d
\* what the description prompt returns if it is opened: the collection
\* afterwards, what the last prompt returned, and whether AddEvent was
\* called.
processAddEventFromCalendar(evs, selectedDate, t, d, saved) ==
    IF t.status # "ok"
    THEN [events |-> evs, ret |-> t, called |-> FALSE]
    ELSE IF d.status # "ok"
    THEN [events |-> evs, ret |-> d, called |-> FALSE]
    ELSE [events |-> AddEvent(evs, selectedDate, t.value, d.value, saved).events,
          ret |-> d, called |-> TRUE]

\* processEditSelectedCalendarEvent on a date that has events: the event
\* chosen by the index.
eventToEdit(evs, selectedDate, index) ==
    LET dateEvents == GetEventsForDate(evs, selectedDate)
        i          == IF index >= Len(dateEvents) THEN Len(dateEvents) - 1 ELSE index
    IN  dateEvents[i + 1]

\* processEditSelectedCalendarEvent on a date that has events, t being what
\* the time prompt returns and d what the description prompt returns if it
\* is opened: the collection afterwards, what the last prompt returned, and
\* whether EditEvent was called.
processEditSelectedCalendarEvent(evs, selectedDate, index, t, d, updated) ==
    LET old         == eventToEdit(evs, selectedDate, index)
        currentTime == GetTimeString(old.time)
        currentDesc == old.desc
    IN  IF t.status # "ok"
        THEN [events |-> evs, ret |-> t, called |-> FALSE]
        ELSE LET timeStr == IF t.value = << >> THEN currentTime ELSE t.value IN
             IF d.status # "ok"
             THEN [events |-> evs, ret |-> d, called |-> FALSE]
             ELSE LET description == IF d.value = << >> THEN currentDesc ELSE d.value IN
                  [events |-> EditEvent(evs, old, selectedDate, timeStr,
                                        description, updated).events,
                   ret |-> d, called |-> TRUE]

\* handleCalendarAction, ActionAddEvent: processAddEventFromCalendar.
\* lastRet tells whether AddEvent was called.
CalendarAddEvent ==
    /\ lastOp' = "processAddEventFromCalendar"
    /\ running
    /\ state = "StateCalendar"
    /\ Len(events) <= MaxEvents
    /\ \E t \in TimeReturns(<< >>) : \E d \in TextReturns(<< >>) : \E saved \in BOOLEAN :
          \E r \in { processAddEventFromCalendar(events, sel, t, d, saved) } :
          /\ events' = r.events
          /\ stored' = StoredAfterAdd(stored, events, r.events)
          /\ inputRet' = r.ret
          /\ lastRet' = r.called
    /\ state' = "StateCalendar"
    /\ selectedEventIndex' = 0
    /\ UNCHANGED <<navVars, running, searchQuery, searchResults, searchResultDates,
                   selectedResultIndex, input, queried, arg>>

\* handleCalendarEventEditAction, ActionMoveUp: navigateCalendarEventEditUp
CalendarEditMoveUp ==
    /\ lastOp' = "ActionMoveUp"
    /\ running
    /\ state = "StateCalendarEventEdit"
    /\ selectedEventIndex' =
          IF Len(GetEventsForDate(events, sel)) > 0 /\ selectedEventIndex > 0
          THEN selectedEventIndex - 1 ELSE selectedEventIndex
    /\ lastRet' = FALSE
    /\ UNCHANGED <<navVars, running, callVars, state, events, stored, searchQuery, searchResults,
                   searchResultDates, selectedResultIndex>>

\* handleCalendarEventEditAction, ActionMoveDown: navigateCalendarEventEditDown
CalendarEditMoveDown ==
    /\ lastOp' = "ActionMoveDown"
    /\ running
    /\ state = "StateCalendarEventEdit"
    /\ selectedEventIndex' =
          IF /\ Len(GetEventsForDate(events, sel)) > 0
             /\ selectedEventIndex < Len(GetEventsForDate(events, sel)) - 1
          THEN selectedEventIndex + 1 ELSE selectedEventIndex
    /\ lastRet' = FALSE
    /\ UNCHANGED <<navVars, running, callVars, state, events, stored, searchQuery, searchResults,
                   searchResultDates, selectedResultIndex>>

\* handleCalendarEventEditAction, ActionShowEvents (Enter):
\* processEditSelectedCalendarEvent.  lastRet tells whether EditEvent was
\* called.
CalendarEditSelectedEvent ==
    /\ lastOp' = "processEditSelectedCalendarEvent"
    /\ running
    /\ state = "StateCalendarEventEdit"
    /\ IF Len(GetEventsForDate(events, sel)) = 0
       THEN /\ inputRet' = NoCall
            /\ lastRet' = FALSE
            /\ UNCHANGED <<events, stored>>
       ELSE LET old == eventToEdit(events, sel, selectedEventIndex) IN
            \E t \in TimeReturns(GetTimeString(old.time)) : \E d \in TextReturns(old.desc) :
            \E updated \in BOOLEAN :
               \E r \in { processEditSelectedCalendarEvent(events, sel, selectedEventIndex,
                                                         t, d, updated) } :
               /\ events' = r.events
               /\ stored' = StoredAfterEdit(stored, events, r.events, old)
               /\ inputRet' = r.ret
               /\ lastRet' = r.called
    /\ state' = "StateCalendar"
    /\ selectedEventIndex' = 0
    /\ UNCHANGED <<navVars, running, searchQuery, searchResults, searchResultDates,
                   selectedResultIndex, input, queried, arg>>

\* The dates the host's clock shows when the workflows are run: one with
\* stored events, one without.
WorkflowDates == { MkDate(FirstYear, 3, 10), MkDate(FirstYear, 1, 31) }

EventInit == \E now \in WorkflowDates : \E evs \in StoredCollections : ConstructedOn(now, evs)

EventNext ==
    \/ CalendarAddEvent
    \/ CalendarEditEvent
    \/ EventModeBack
    \/ CalendarEditMoveUp
    \/ CalendarEditMoveDown
    \/ CalendarEditSelectedEvent

\* The application adding and editing events of the selected date, one step
\* per handled key action.
EventSpec == EventInit /\ [][EventNext]_vars

----------------------------------------------------------------------------
(* Properties of the add and edit workflows (checked under EventSpec).      *)

\* The modes in which the main loop polls key actions, no prompt open.
NonInputModes ==
    { "StateCalendar", "StateCalendarEventSelection", "StateCalendarEventEdit",
      "StateSearch", "StateEventList" }

\* C17: Esc at any point of the time prompt or of the description prompt
\* abandons the add or edit workflow: the prompt returns cancelled with an
\* empty value, neither AddEvent nor EditEvent is called, the event
\* collection is unchanged and the application is back in a mode that takes
\* no input.
C17_EscAbandonsWorkflow ==
    [][ (/\ lastOp' \in {"processAddEventFromCalendar", "processEditSelectedCalendarEvent"}
         /\ inputRet'.status = "cancelled") =>
            /\ inputRet'.value = << >>
            /\ ~lastRet'
            /\ events' = events
            /\ state' \in NonInputModes
            /\ state' = "StateCalendar" ]_vars

\* The description prompt of an edit was cancelled after the time prompt had
\* returned, on a date that has events.
C17_Witness ==
    /\ lastOp = "processEditSelectedCalendarEvent"
    /\ inputRet.status = "cancelled"
    /\ inputRet.prompt = "Description:"
    /\ Len(StoredOn(sel)) > 0
    /\ state = "StateCalendar"

----------------------------------------------------------------------------
(* The event list of the selected date (StateEventList).  As in the         *)
(* calendar view, a handler that opens prompts is one step.                 *)

\* The index of the event list after the clamp the delete and edit handlers
\* apply to a list of n > 0 events.
clampIndex(index, n) == IF index >= n THEN n - 1 ELSE index

\* An add from the list that leaves the highlight where it was.
processAddEventFromEventsList_KeepIndex(evs, selectedDate, index, t, d, saved) ==
    IF t.status # "ok"
    THEN [events |-> evs, index |-> index, ret |-> t, called |-> FALSE]
    ELSE IF d.status # "ok"
    THEN [events |-> evs, index |-> index, ret |-> d, called |-> FALSE]
    ELSE LET r == AddEvent(evs, selectedDate, t.value, d.value, saved) IN
         [events |-> r.events, index |-> index, ret |-> d, called |-> TRUE]

\* processAddEventFromEventsList, t and d being what the time and the
\* description prompts return: the collection and selectedEventIndex
\* afterwards, what the last prompt returned, whether AddEvent was called.
processAddEventFromEventsList(evs, selectedDate, index, t, d, saved) ==
    IF t.status # "ok"
    THEN [events |-> evs, index |-> index, ret |-> t, called |-> FALSE]
    ELSE IF d.status # "ok"
    THEN [events |-> evs, index |-> index, ret |-> d, called |-> FALSE]
    ELSE LET r == AddEvent(evs, selectedDate, t.value, d.value, saved) IN
         IF ~r.ok
         THEN [events |-> evs, index |-> index, ret |-> d, called |-> TRUE]
         ELSE LET updatedEvents == GetEventsForDate(r.events, selectedDate)
                  matches == { i \in 1..Len(updatedEvents) :
                                  /\ GetTimeString(updatedEvents[i].time) = t.value
                                  /\ updatedEvents[i].desc = d.value }
                  found   == IF matches = {} THEN index
                             ELSE (CHOOSE i \in matches : \A j \in matches : i <= j) - 1
              IN  [events |-> r.events,
                   index  |-> clampIndex(found, Len(updatedEvents)),
                   ret |-> d, called |-> TRUE]

\* processDeleteEventFromList on a date that has events, key being the key
\* pressed at the confirmation: the collection and selectedEventIndex
\* afterwards, and whether DeleteEvent was called.
processDeleteEventFromList(evs, selectedDate, index, key, removed) ==
    LET dateEvents == GetEventsForDate(evs, selectedDate)
        i          == clampIndex(index, Len(dateEvents))
        event      == dateEvents[i + 1]
    IN  IF ~confirmAction(key)
        THEN [events |-> evs, index |-> i, called |-> FALSE]
        ELSE LET r == DeleteEvent(evs, event, removed) IN
             IF ~r.ok
             THEN [events |-> evs, index |-> i, called |-> TRUE]
             ELSE [events |-> r.events,
                   index  |-> IF i >= Len(dateEvents) - 1 /\ i > 0 THEN i - 1 ELSE i,
                   called |-> TRUE]

\* processEditEventFromList on a date that has events, t and d being what
\* the prompts return: the collection and selectedEventIndex afterwards,
\* what the last prompt returned, whether EditEvent was called.
processEditEventFromList(evs, selectedDate, index, t, d, updated) ==
    LET dateEvents  == GetEventsForDate(evs, selectedDate)
        i           == clampIndex(index, Len(dateEvents))
        old         == dateEvents[i + 1]
        currentTime == GetTimeString(old.time)
        currentDesc == old.desc
    IN  IF t.status # "ok"
        THEN [events |-> evs, index |-> i, ret |-> t, called |-> FALSE]
        ELSE LET timeStr == IF t.value = << >> THEN currentTime ELSE t.value IN
             IF d.status # "ok"
             THEN [events |-> evs, index |-> i, ret |-> d, called |-> FALSE]
             ELSE LET description == IF d.value = << >> THEN currentDesc ELSE d.value IN
                  [events |-> EditEvent(evs, old, selectedDate, timeStr,
                                        description, updated).events,
                   index |-> i, ret |-> d, called |-> TRUE]

\* handleEventListAction, ActionMoveUp: navigateEventUp
ListMoveUp ==
    /\ lastOp' = "ActionMoveUp"
    /\ running
    /\ state = "StateEventList"
    /\ selectedEventIndex' =
          IF Len(GetEventsForDate(events, sel)) > 0 /\ selectedEventIndex > 0
          THEN selectedEventIndex - 1 ELSE selectedEventIndex
    /\ lastRet' = FALSE
    /\ UNCHANGED <<navVars, running, callVars, state, events, stored, searchQuery, searchResults,
                   searchResultDates, selectedResultIndex>>

\* handleEventListAction, ActionMoveDown: navigateEventDown
ListMoveDown ==
    /\ lastOp' = "ActionMoveDown"
    /\ running
    /\ state = "StateEventList"
    /\ selectedEventIndex' =
          IF /\ Len(GetEventsForDate(events, sel)) > 0
             /\ selectedEventIndex < Len(GetEventsForDate(events, sel)) - 1
          THEN selectedEventIndex + 1 ELSE selectedEventIndex
    /\ lastRet' = FALSE
    /\ UNCHANGED <<navVars, running, callVars, state, events, stored, searchQuery, searchResults,
                   searchResultDates, selectedResultIndex>>

\* handleEventListAction, ActionAddEvent: processAddEventFromEventsList.
\* lastRet tells whether AddEvent was called.
ListAddEvent ==
    /\ lastOp' = "processAddEventFromEventsList"
    /\ running
    /\ state = "StateEventList"
    /\ Len(events) < MaxEvents
    /\ \E t \in TimeReturns(<< >>) : \E d \in TextReturns(<< >>) : \E saved \in BOOLEAN :
          \E r \in { processAddEventFromEventsList(events, sel, selectedEventIndex,
                                                 t, d, saved) } :
          /\ events' = r.events
          /\ stored' = StoredAfterAdd(stored, events, r.events)
          /\ selectedEventIndex' = r.index
          /\ lastRet' = r.called
    /\ UNCHANGED <<navVars, running, callVars, state, searchQuery, searchResults,
                   searchResultDates, selectedResultIndex>>

\* handleEventListAction, ActionDeleteEvent: processDeleteEventFromList.
\* lastRet tells whether DeleteEvent was called.
ListDeleteEvent ==
    /\ lastOp' = "processDeleteEventFromList"
    /\ running
    /\ state = "StateEventList"
    /\ IF Len(GetEventsForDate(events, sel)) = 0
       THEN /\ lastRet' = FALSE
            /\ UNCHANGED <<events, stored, selectedEventIndex>>
       ELSE \E key \in ConfirmKeys : \E removed \in BOOLEAN :
               \E r \in { processDeleteEventFromList(events, sel, selectedEventIndex,
                                                   key, removed) } :
               /\ events' = r.events
               /\ stored' = StoredAfterDelete(stored, events, r.events)
               /\ selectedEventIndex' = r.index
               /\ lastRet' = r.called
    /\ UNCHANGED <<navVars, running, callVars, state, searchQuery, searchResults,
                   searchResultDates, selectedResultIndex>>

\* handleEventListAction, ActionEditEvent: processEditEventFromList.
\* lastRet tells whether EditEvent was called.
ListEditEvent ==
    /\ lastOp' = "processEditEventFromList"
    /\ running
    /\ state = "StateEventList"
    /\ IF Len(GetEventsForDate(events, sel)) = 0
       THEN /\ lastRet' = FALSE
            /\ UNCHANGED <<events, stored, selectedEventIndex>>
       ELSE LET old == eventToEdit(events, sel, selectedEventIndex) IN
            \E t \in TimeReturns(GetTimeString(old.time)) : \E d \in TextReturns(old.desc) :
            \E updated \in BOOLEAN :
               \E r \in { processEditEventFromList(events, sel, selectedEventIndex,
                                                 t, d, updated) } :
               /\ events' = r.events
               /\ stored' = StoredAfterEdit(stored, events, r.events, old)
               /\ selectedEventIndex' = r.index
               /\ lastRet' = r.called
    /\ UNCHANGED <<navVars, running, callVars, state, searchQuery, searchResults,
                   searchResultDates, selectedResultIndex>>

\* The key actions handleEventListAction has no case for.
ListOtherActions ==
    { "ActionMoveLeft", "ActionMonthNext", "ActionResetCurrent", "ActionSearch" }

\* An event list in which the left arrow moves the selected day.
ListOtherAction_MovesDay ==
    /\ running
    /\ state = "StateEventList"
    /\ \E action \in ListOtherActions :
          /\ lastOp' = action
          /\ sel' = IF action = "ActionMoveLeft" THEN navigateDayLeft(center, sel) ELSE sel
    /\ lastRet' = FALSE
    /\ UNCHANGED <<center, appVars>>

\* handleEventListAction on a key action it has no case for: nothing is done
ListOtherAction ==
    /\ running
    /\ state = "StateEventList"
    /\ \E action \in ListOtherActions : lastOp' = action
    /\ lastRet' = FALSE
    /\ UNCHANGED <<navVars, appVars>>

ListInit == \E now \in WorkflowDates : ConstructedOn(now, StoredEvents)

ListNext ==
    \/ CalendarShowEvents
    \/ CalendarResetCurrent
    \/ EventModeBack
    \/ ListMoveUp
    \/ ListMoveDown
    \/ ListAddEvent
    \/ ListDeleteEvent
    \/ ListEditEvent
    \/ ListOtherAction

\* The application showing and changing the event list of the selected
\* date, one step per handled key action.
ListSpec == ListInit /\ [][ListNext]_vars

\* The stored events that are not on the selected date, in stored order.
StoredElsewhere(evs) == SelectSeq(evs, LAMBDA e : e.date # sel)

\* C30: while the application is in event-list mode no key action changes
\* the selected date or the centre month, so the date is the one selected
\* when the list was opened; moving in the list, adding, editing and
\* deleting there change only events of that date, and an event added or
\* edited there is on that date.
C30_ListKeepsSelectedDate ==
    [][state = "StateEventList" =>
          /\ sel' = sel
          /\ center' = center
          /\ StoredElsewhere(events') = StoredElsewhere(events)]_vars

\* An event was added from the list of a date the selection was reset to,
\* into a collection whose first event is of another date.
C30_Witness ==
    /\ state = "StateEventList"
    /\ lastOp = "processAddEventFromEventsList"
    /\ lastRet
    /\ Len(events) > 1
    /\ events[Len(events)].date = sel
    /\ events[1].date # sel
    /\ sel \in HostDates

\* The event the list of the selected date highlights in state variables
\* evs and index, the index being valid.
Highlighted(evs, index) == GetEventsForDate(evs, sel)[index + 1]

\* C31: after an event is successfully added from event-list mode,
\* selectedEventIndex is a valid index into the sorted event list of the
\* selected date and the event at that index has the time and the
\* description that were just entered: this holds for whatever the two
\* prompts return in any state of the list, and in every add step taken the
\* highlighted event has the time and description of the appended one.
C31_AddHighlightsEntered ==
    /\ [](state = "StateEventList" =>
            \A t \in TimeReturns(<< >>) : \A d \in TextReturns(<< >>) :
               LET r == processAddEventFromEventsList(events, sel, selectedEventIndex,
                                                      t, d, TRUE)
                   n == Len(GetEventsForDate(r.events, sel))
               IN  (r.called /\ Len(r.events) = Len(events) + 1) =>
                      /\ r.index \in 0..(n - 1)
                      /\ GetTimeString(Highlighted(r.events, r.index).time) = t.value
                      /\ Highlighted(r.events, r.index).desc = d.value)
    /\ [][(lastOp' = "processAddEventFromEventsList" /\ Len(events') = Len(events) + 1) =>
            /\ selectedEventIndex' \in 0..(Len(GetEventsForDate(events', sel')) - 1)
            /\ Highlighted(events', selectedEventIndex').time = events'[Len(events')].time
            /\ Highlighted(events', selectedEventIndex').desc = events'[Len(events')].desc]_vars

\* An event was added from the list and is highlighted behind an earlier
\* event of the selected date.
C31_Witness ==
    /\ state = "StateEventList"
    /\ lastOp = "processAddEventFromEventsList"
    /\ lastRet
    /\ selectedEventIndex > 0
    /\ selectedEventIndex < Len(GetEventsForDate(events, sel))
    /\ Highlighted(events, selectedEventIndex) = events[Len(events)]

----------------------------------------------------------------------------
(* The modes of the application and the way back from them: the event      *)
(* list, choosing an event to delete or to edit in the calendar view, and   *)
(* the search results.  Events are deleted but not added or edited here.    *)

\* handleCalendarEventSelectionAction, ActionMoveUp: navigateCalendarEventUp
CalendarSelectMoveUp ==
    /\ lastOp' = "ActionMoveUp"
    /\ running
    /\ state = "StateCalendarEventSelection"
    /\ selectedEventIndex' =
          IF Len(GetEventsForDate(events, sel)) > 0 /\ selectedEventIndex > 0
          THEN selectedEventIndex - 1 ELSE selectedEventIndex
    /\ lastRet' = FALSE
    /\ UNCHANGED <<navVars, running, callVars, state, events, stored, searchQuery, searchResults,
                   searchResultDates, selectedResultIndex>>

\* handleCalendarEventSelectionAction, ActionMoveDown: navigateCalendarEventDown
CalendarSelectMoveDown ==
    /\ lastOp' = "ActionMoveDown"
    /\ running
    /\ state = "StateCalendarEventSelection"
    /\ selectedEventIndex' =
          IF /\ Len(GetEventsForDate(events, sel)) > 0
             /\ selectedEventIndex < Len(GetEventsForDate(events, sel)) - 1
          THEN selectedEventIndex + 1 ELSE selectedEventIndex
    /\ lastRet' = FALSE
    /\ UNCHANGED <<navVars, running, callVars, state, events, stored, searchQuery, searchResults,
                   searchResultDates, selectedResultIndex>>

\* processDeleteSelectedCalendarEvent, key being the key pressed at the
\* confirmation: the collection afterwards and whether DeleteEvent was
\* called (the application returns to the calendar with index 0 in any case).
processDeleteSelectedCalendarEvent(evs, selectedDate, index, key, removed) ==
    LET dateEvents == GetEventsForDate(evs, selectedDate) IN
    IF Len(dateEvents) = 0 THEN [events |-> evs, called |-> FALSE]
    ELSE LET event == dateEvents[clampIndex(index, Len(dateEvents)) + 1] IN
         IF ~confirmAction(key) THEN [events |-> evs, called |-> FALSE]
         ELSE [events |-> DeleteEvent(evs, event, removed).events, called |-> TRUE]

\* handleCalendarEventSelectionAction, ActionShowEvents (Enter):
\* processDeleteSelectedCalendarEvent.  lastRet tells whether DeleteEvent
\* was called.
CalendarDeleteSelectedEvent ==
    /\ lastOp' = "processDeleteSelectedCalendarEvent"
    /\ running
    /\ state = "StateCalendarEventSelection"
    /\ \E key \in ConfirmKeys : \E removed \in BOOLEAN :
          \E r \in { processDeleteSelectedCalendarEvent(events, sel, selectedEventIndex,
                                                      key, removed) } :
          /\ events' = r.events
          /\ stored' = StoredAfterDelete(stored, events, r.events)
          /\ lastRet' = r.called
    /\ state' = "StateCalendar"
    /\ selectedEventIndex' = 0
    /\ UNCHANGED <<navVars, running, callVars, searchQuery, searchResults,
                   searchResultDates, selectedResultIndex>>

\* The collections the modes are entered with: the stored events, or a
\* file that holds one of them twice.
ModeCollections == { StoredEvents, TwiceStored }

ModeInit == \E now \in WorkflowDates : \E evs \in ModeCollections : ConstructedOn(now, evs)

ModeNext ==
    \/ CalendarShowEvents
    \/ CalendarDeleteEvent
    \/ CalendarEditEvent
    \/ CalendarSearch
    \/ SearchMoveUp
    \/ SearchMoveDown
    \/ SearchBack
    \/ EventModeBack
    \/ ListMoveUp
    \/ ListMoveDown
    \/ ListDeleteEvent
    \/ CalendarEditMoveUp
    \/ CalendarEditMoveDown
    \/ CalendarSelectMoveUp
    \/ CalendarSelectMoveDown
    \/ CalendarDeleteSelectedEvent

\* The application entering and leaving its modes, one step per handled key
\* action.
ModeSpec == ModeInit /\ [][ModeNext]_vars

\* The modes Esc leaves for the calendar.
EscModes ==
    { "StateEventList", "StateCalendarEventSelection", "StateCalendarEventEdit",
      "StateSearch" }

\* The modes that show the events of the selected date with one of them
\* highlighted.
HighlightModes == { "StateEventList", "StateCalendarEventSelection", "StateCalendarEventEdit" }

\* C40: in event-list, calendar-event-selection and calendar-event-edit
\* modes, when the selected date has n > 0 events, 0 <= selectedEventIndex
\* < n after every handled action, also after the highlighted event was
\* deleted while events equal to it in every field were held; and the
\* selection and edit modes are entered only on a date that has an event.
C40_HighlightInRange ==
    /\ (state \in HighlightModes /\ Len(GetEventsForDate(events, sel)) > 0) =>
          selectedEventIndex \in 0..(Len(GetEventsForDate(events, sel)) - 1)
    /\ state \in { "StateCalendarEventSelection", "StateCalendarEventEdit" } =>
          (lastOp \in { "ActionDeleteEvent", "ActionEditEvent" } =>
              Len(GetEventsForDate(events, sel)) > 0)

\* C35: in event-list, calendar-event-selection, calendar-event-edit and
\* search modes Esc (ActionBack) is always handled and switches the mode to
\* calendar with selectedEventIndex 0 (in search mode the query, the results
\* and selectedResultIndex are cleared too); it never terminates the
\* application and never changes the event collection, the selected date
\* or the centre month.
C35_EscReturnsToCalendar ==
    /\ []((running /\ state \in EscModes) => ENABLED (EventModeBack \/ SearchBack))
    /\ [][(lastOp' = "ActionBack" /\ state \in EscModes) =>
            /\ state' = "StateCalendar"
            /\ selectedEventIndex' = 0
            /\ running'
            /\ events' = events
            /\ sel' = sel
            /\ center' = center
            /\ state = "StateSearch" =>
                  /\ searchQuery' = << >>
                  /\ searchResults' = << >>
                  /\ searchResultDates' = << >>
                  /\ selectedResultIndex' = 0]_vars

\* Esc has just left one of the modes (in this specification Esc is not
\* pressed in calendar mode) on a date that has a duplicated event, after
\* an event was deleted.
C35_Witness ==
    /\ lastOp = "ActionBack"
    /\ running
    /\ state = "StateCalendar"
    /\ selectedEventIndex = 0
    /\ searchResults = << >>
    /\ Len(GetEventsForDate(events, sel)) > 1
    /\ Len(events) < MaxEvents

----------------------------------------------------------------------------
(* The centre month (checked under Spec).                                   *)

\* C34: centerMonth is always the first day of a month: initially and after
\* any sequence of month shifts, day moves, SetSelection calls and
\* search-result jumps.  (Every date of the model is a midnight.)
C34_CenterIsFirstOfMonth ==
    /\ center.d = 1
    /\ center.m \in 1..12

\* A search jump has centred the window on the month of an event that is
\* not on the first of its month and was not visible before the jump.
C34_Witness ==
    /\ lastOp = "ActionShowEvents"
    /\ state = "StateCalendar"
    /\ \E i \in 1..Len(events) :
          /\ events[i].date.d # 1
          /\ MonthNumber(center) = MonthNumber(events[i].date)
    /\ ~InVisibleRange(center, sel)

----------------------------------------------------------------------------
(* Leaving the application (checked under Spec).                            *)

\* The step handles a request to quit: ActionQuit in any mode, or ActionBack
\* in calendar mode.
QuitStep ==
    \/ lastOp' = "ActionQuit"
    \/ lastOp' = "ActionBack" /\ state = "StateCalendar"

\* C29: the main loop is left only by a step that handles a request to quit
\* (Q or Ctrl-C in any mode, Esc in calendar mode) and whose exit prompt
\* confirms, which it does for the key Enter and no other; when it does not,
\* the application goes on in the same mode with calendar, selection and
\* events unchanged; and once the loop is left nothing more is handled.
C29_ExitOnlyOnConfirm ==
    /\ [][/\ running
          /\ ~running' => (QuitStep /\ lastRet')
          /\ QuitStep =>
                /\ running' <=> ~lastRet'
                /\ state' = state
                /\ center' = center
                /\ sel' = sel
                /\ events' = events]_vars
    /\ [](\A key \in ConfirmKeys : confirmExit(key) <=> key = "Enter")

\* A request to quit in search mode, with results listed, was not
\* confirmed: the application is still running in search mode.
C29_Witness ==
    /\ lastOp = "ActionQuit"
    /\ running
    /\ ~lastRet
    /\ state = "StateSearch"
    /\ Len(searchResults) > 0

----------------------------------------------------------------------------
(* The calendar utilities: month lengths and leap years.                    *)

\* A leap-year test that knows no century rule.
IsLeapYear_Julian(year) == year % 4 = 0

\* calendar.IsLeapYear
IsLeapYear(year) == (year % 4 = 0 /\ year % 100 # 0) \/ (year % 400 = 0)

\* calendar.GetLastDayOfMonth: the day before the first of month + 1
GetLastDayOfMonth(month) == AddDate(GoDate(month.y, month.m + 1, 1), 0, 0, -1)

\* calendar.GetDaysInMonth: the day of month of that last day
GetDaysInMonth(month) == AddDate(GoDate(month.y, month.m + 1, 1), 0, 0, -1).d

\* The years the utilities are asked about: century years that are and are
\* not leap years, and ordinary years around FirstYear.
UtilityYears == { 1900, 2000, 2100, FirstYear - 1, FirstYear, FirstYear + 1 }

\* The days of the month the moment asked about falls on.
UtilityDays == { 1, 15, 28 }

\* GetDaysInMonth, GetLastDayOfMonth and IsLeapYear called on a moment of
\* some month; lastRet keeps the moment and the three answers.
MonthUtilities ==
    /\ lastOp' = "GetDaysInMonth"
    /\ \E y \in UtilityYears : \E m \in 1..12 : \E d \in UtilityDays :
          LET month == MkDate(y, m, d) IN
          lastRet' = [month |-> month,
                      days  |-> GetDaysInMonth(month),
                      last  |-> GetLastDayOfMonth(month),
                      leap  |-> IsLeapYear(y)]
    /\ UNCHANGED <<navVars, appVars>>

MonthInit == Constructed(<< >>)

MonthNext == MonthUtilities

\* The calendar utilities called on any month.
MonthSpec == MonthInit /\ [][MonthNext]_vars

\* C28: for every year and month GetDaysInMonth is the Gregorian length of
\* the month, 31, 30 or 28 days and 29 for February exactly when IsLeapYear
\* of the year holds; IsLeapYear holds exactly for the years divisible by 4
\* that are not divisible by 100 or are divisible by 400; and the last day
\* of December is computed through January of the next year.
C28_MonthLengths ==
    lastOp = "GetDaysInMonth" =>
        LET y == lastRet.month.y
            m == lastRet.month.m
        IN  /\ lastRet.leap <=> (y % 4 = 0 /\ (y % 100 # 0 \/ y % 400 = 0))
            /\ lastRet.days = (IF m = 2 THEN (IF lastRet.leap THEN 29 ELSE 28)
                               ELSE IF m \in {4, 6, 9, 11} THEN 30 ELSE 31)
            /\ lastRet.days = MonthLength(y, m)
            /\ lastRet.last = MkDate(y, m, lastRet.days)
            /\ m = 12 => /\ GoDate(y, m + 1, 1) = MkDate(y + 1, 1, 1)
                         /\ lastRet.last = MkDate(y, 12, 31)

\* The utilities were asked about February 1900, which has 28 days.
C28_Witness ==
    /\ lastOp = "GetDaysInMonth"
    /\ lastRet.month.y = 1900
    /\ lastRet.month.m = 2
    /\ lastRet.days = 28
    /\ ~lastRet.leap

====
